---- MODULE Spec2Model ----
(***************************************************************************)
(* KnowPilot / CollabThink front end: the outline editor, the position     *)
(* manager, the history dialog and the streaming article generator.        *)
(*                                                                         *)
(* Strings are sequences of characters.  A character is a one-character    *)
(* string, except "&lt;" which stands for the four characters of that HTML *)
(* character reference.  The alphabet has no ASCII letter, so that a "<"   *)
(* in markup is always followed by a non-letter and stays literal text.    *)
(***************************************************************************)
EXTENDS Integers, Sequences, FiniteSets, TLC

\* ------------------------------------------------------------------ bounds
MaxNodes == 2
MaxTextLen == 1

\* --------------------------------------------------------------- alphabet
NL == "\n"
Chars == {"1", "#", " ", "&lt;"}
IsWs(c) == c \in {" ", NL}

\* ------------------------------------------------------- string functions
RECURSIVE Repeat(_, _)
Repeat(c, n) == IF n <= 0 THEN <<>> ELSE <<c>> \o Repeat(c, n - 1)

RECURSIVE TrimLeft(_)
TrimLeft(s) == IF s # <<>> /\ IsWs(Head(s)) THEN TrimLeft(Tail(s)) ELSE s

RECURSIVE TrimRight(_)
TrimRight(s) ==
  IF s # <<>> /\ IsWs(s[Len(s)]) THEN TrimRight(SubSeq(s, 1, Len(s) - 1)) ELSE s

Trim(s) == TrimRight(TrimLeft(s))

\* String.prototype.split('\n')
RECURSIVE SplitNL(_, _)
SplitNL(s, cur) ==
  IF s = <<>> THEN <<cur>>
  ELSE IF Head(s) = NL THEN <<cur>> \o SplitNL(Tail(s), <<>>)
  ELSE SplitNL(Tail(s), Append(cur, Head(s)))

SplitLines(s) == SplitNL(s, <<>>)

\* Array.prototype.join('\n')
RECURSIVE JoinNL(_)
JoinNL(ls) ==
  IF ls = <<>> THEN <<>>
  ELSE IF Len(ls) = 1 THEN ls[1]
  ELSE ls[1] \o <<NL>> \o JoinNL(Tail(ls))

\* length of the leading run of '#' characters
RECURSIVE HashRun(_)
HashRun(s) == IF s # <<>> /\ Head(s) = "#" THEN 1 + HashRun(Tail(s)) ELSE 0

\* length of the leading run of whitespace characters
RECURSIVE WsRun(_)
WsRun(s) == IF s # <<>> /\ IsWs(Head(s)) THEN 1 + WsRun(Tail(s)) ELSE 0

\* /^#+\s/.test(line)
HeadingFilter(line) ==
  LET h == HashRun(line)
  IN h >= 1 /\ Len(line) > h /\ IsWs(line[h + 1])

\* lines.filter(line => /^#+\s/.test(line))
RECURSIVE FilterHeadings(_)
FilterHeadings(ls) ==
  IF ls = <<>> THEN <<>>
  ELSE (IF HeadingFilter(Head(ls)) THEN <<Head(ls)>> ELSE <<>>)
       \o FilterHeadings(Tail(ls))

\* line.match(/^(#+)\s*(.+)$/): the greedy match with its backtracking; the
\* result is <<level, text>> or <<>> when the line does not match.
\* h is the length of the run of '#', w of the whitespace that follows it
MatchGroups(line, h, w) ==
  IF h = 0 THEN <<>>
  ELSE IF h + w < Len(line) THEN <<h, SubSeq(line, h + w + 1, Len(line))>>
  ELSE IF w >= 1 THEN <<h, <<line[h + w]>> >>
  ELSE IF h >= 2 THEN <<h - 1, <<"#">> >>
  ELSE <<>>
MatchAfter(line, h) == MatchGroups(line, h, WsRun(SubSeq(line, h + 1, Len(line))))
HeadingMatch(line) == MatchAfter(line, HashRun(line))

\* What element.textContent returns after `${text}` was assigned through
\* innerHTML: character references are decoded.
HtmlChar(c) == IF c = "&lt;" THEN "<" ELSE c
HtmlText(s) == [i \in 1..Len(s) |-> HtmlChar(s[i])]

\* ---------------------------------------------------------- outline editor
\* an .outline-block element: data-level, the text of .block-content, the
\* draggable attribute, the label in .level-number (the list of its numbers)
\* and whether its toggle button lacks the class no-children
Node(level, text) ==
  [level |-> level, text |-> text, drag |-> FALSE, number |-> <<>>,
   hasChildren |-> FALSE]

\* the line one block contributes: '#'.repeat(level) + ' ' + text
NodeLine(n) == Repeat("#", n.level) \o <<" ">> \o n.text

\* send_topic.js updateOutlineData / getCurrentOutlineText serialization
SerializeOutline(ns) == JoinNL([i \in 1..Len(ns) |-> NodeLine(ns[i])])

\* history_outline.js serialization: every line is followed by '\n'
RECURSIVE SerializeHistory(_)
SerializeHistory(ns) ==
  IF ns = <<>> THEN <<>>
  ELSE NodeLine(Head(ns)) \o <<NL>> \o SerializeHistory(Tail(ns))

OutlineLines(content) == FilterHeadings(SplitLines(content))

RECURSIVE BlocksOf(_)
BlocksOf(ls) ==
  IF ls = <<>> THEN <<>>
  ELSE LET m == HeadingMatch(Head(ls))
       IN (IF m = <<>> THEN <<>> ELSE <<Node(m[1], HtmlText(m[2]))>>)
          \o BlocksOf(Tail(ls))

\* ----------------------------------------------------------- numbering
\* the array counters = [0, 0, 0, 0, 0, 0]
LevelCounters == 6
\* NaN, and the holes of an array written beyond its length
NaN == -1

\* the label: the counters of levels 1..level that are greater than 0
RECURSIVE NumberStr(_, _, _)
NumberStr(counters, level, i) ==
  IF i > level THEN <<>>
  ELSE (IF counters[i] > 0 THEN <<counters[i]>> ELSE <<>>)
       \o NumberStr(counters, level, i + 1)

\* the counters after a heading of the level, without the reset of the
\* deeper counters
CountLineNoReset(counters, level) ==
  IF level > Len(counters)
  THEN counters \o Repeat(NaN, level - Len(counters))
  ELSE [counters EXCEPT ![level] = IF @ = NaN THEN NaN ELSE @ + 1]

\* the counters after a heading of the level: the counters of the deeper
\* levels the array holds are reset, the counter of the level is incremented
\* (a counter beyond the array is undefined and becomes NaN)
CountLine(counters, level) ==
  IF level > Len(counters)
  THEN counters \o Repeat(NaN, level - Len(counters))
  ELSE [i \in 1..Len(counters) |->
          IF i < level THEN counters[i]
          ELSE IF i > level THEN 0
          ELSE IF counters[i] = NaN THEN NaN ELSE counters[i] + 1]

\* the forEach of generateHierarchicalNumbering; m is the match of the line
RECURSIVE NumberWalk(_, _)
NumberPush(rest, c, level) == <<NumberStr(c, level, 1)>> \o NumberWalk(rest, c)
NumberLine(rest, counters, m) ==
  IF m = <<>> THEN NumberWalk(rest, counters)
  ELSE NumberPush(rest, CountLine(counters, m[1]), m[1])
NumberWalk(ls, counters) ==
  IF ls = <<>> THEN <<>>
  ELSE NumberLine(Tail(ls), counters, HeadingMatch(Head(ls)))

\* send_topic.js generateHierarchicalNumbering
generateHierarchicalNumbering(ls) == NumberWalk(ls, [i \in 1..LevelCounters |-> 0])

\* send_topic.js hasChildrenItems: the first later line that is a heading
\* decides
RECURSIVE hasChildrenItems(_, _, _)
hasChildrenItems(ls, currentIndex, currentLevel) ==
  IF currentIndex + 1 > Len(ls) THEN FALSE
  ELSE LET m == HeadingMatch(ls[currentIndex + 1])
       IN IF m = <<>> THEN hasChildrenItems(ls, currentIndex + 1, currentLevel)
          ELSE m[1] > currentLevel

\* hasChildrenFromBlocks finding no children
hasChildrenFromBlocksNever(ns, currentIndex, currentLevel) == FALSE

\* send_topic.js hasChildrenFromBlocks: the next block decides
hasChildrenFromBlocks(ns, currentIndex, currentLevel) ==
  currentIndex + 1 <= Len(ns) /\ ns[currentIndex + 1].level > currentLevel

\* the label numbering[index], the empty text when the array is shorter
LabelAt(numbering, i) == IF i <= Len(numbering) THEN numbering[i] ELSE <<>>

\* the outlineLines refreshOutlineNumbering builds from the blocks
RECURSIVE BlockLines(_)
BlockLines(ns) ==
  IF ns = <<>> THEN <<>> ELSE <<NodeLine(Head(ns))>> \o BlockLines(Tail(ns))

\* send_topic.js refreshOutlineNumbering
RECURSIVE RefreshFrom(_, _, _)
RefreshFrom(ns, numbering, i) ==
  IF i > Len(ns) THEN <<>>
  ELSE <<[ns[i] EXCEPT !.number = LabelAt(numbering, i),
                       !.hasChildren = hasChildrenFromBlocks(ns, i, ns[i].level)]>>
       \o RefreshFrom(ns, numbering, i + 1)

refreshOutlineNumbering(ns) ==
  RefreshFrom(ns, generateHierarchicalNumbering(BlockLines(ns)), 1)

\* the outline blocks displayOutlineInSidebar builds from an outline string
RECURSIVE DisplayFrom(_, _, _, _)
DisplayFrom(bs, ls, numbering, i) ==
  IF i > Len(bs) THEN <<>>
  ELSE <<[bs[i] EXCEPT !.number = LabelAt(numbering, i),
                       !.hasChildren = hasChildrenItems(ls, i, bs[i].level)]>>
       \o DisplayFrom(bs, ls, numbering, i + 1)

ParseOutline(content) ==
  LET ls == OutlineLines(content)
  IN DisplayFrom(BlocksOf(ls), ls, generateHierarchicalNumbering(ls), 1)

Pairs(ns) == [i \in 1..Len(ns) |-> <<ns[i].level, ns[i].text>>]

\* ------------------------------------------------------------------ state
VARIABLES
  nodes,            \* the .outline-block elements of the sidebar, in DOM order
  hiddenInput,      \* value of the hidden input #outlineData
  sortingEnabled,   \* closure variable of the SORT button handler
  skipSave,         \* window.skipSaveOutlineToHistory
  editorMode,       \* whose handlers the outline toolbar carries
  shownPos,         \* position of the record whose outline the editor shows
  windowCurrentPos, \* window.currentPos
  posInit,          \* the page-load GET of /api/session/current_pos
  hmCurrentPos,     \* historyManager.currentPos
  selectedPos,      \* historyManager.selectedPos
  dialog,           \* the history dialog
  load,             \* historyManager.loadSelectedOutline in flight
  gsp,              \* a call of the global setCurrentPos in flight
  srv,              \* the session backend: current_pos and the records
  topic,            \* the topic submission in flight
  container,        \* the element #article-display-container
  runs,             \* the generation requests and their response streams
  modOutlineData,   \* generate_article.js module variable outlineData
  winOutlineData,   \* window.outlineData
  winTotal,         \* window.totalChapters
  winCompleted,     \* window.completedChaptersCount
  saveTimers,       \* pending auto-save timers, by scheduling run
  contTimers,       \* pending continuation timers, by start index
  retries,          \* single-chapter retry requests in flight
  retryVariant,     \* which script defined retryChapterGeneration last
  chapterDataStore, \* the keys of window.chapterDataStore
  out,              \* the requests issued by the last handler step
  notice,           \* whether the last handler step showed an error
                    \* notification and ran cleanupLoadingStates
  reader,           \* the read loop over one response body
  inflight,         \* outline saves sent and not yet applied by the backend
  library           \* the private-library dialog: uploadedFiles and its button

editorVars == <<nodes, hiddenInput, sortingEnabled, skipSave, editorMode, shownPos>>
posVars == <<windowCurrentPos, posInit>>
histVars == <<hmCurrentPos, selectedPos, dialog, load>>
genVars == <<runs, modOutlineData, winOutlineData, winTotal, winCompleted,
             saveTimers, contTimers, retries, retryVariant,
             chapterDataStore>>
vars == <<nodes, hiddenInput, sortingEnabled, skipSave, editorMode, shownPos,
          windowCurrentPos, posInit, hmCurrentPos, selectedPos, dialog, load,
          gsp, srv, topic, container, runs, modOutlineData, winOutlineData,
          winTotal, winCompleted, saveTimers, contTimers, retries, retryVariant,
          chapterDataStore,
          out, notice, reader, inflight, library>>
netVars == <<reader, inflight>>

\* what a handler step showed: an error notification (the dialog's
\* 'Please enter content', showNotification(..., 'error')), and whether it
\* ran cleanupLoadingStates
Shown(error, cleanup) == [error |-> error, cleanup |-> cleanup]
Quiet == Shown(FALSE, FALSE)

\* ------------------------------------------------------ position manager
Uninitialized == -1
MaxPos == 1
Positions == 0..MaxPos
\* null and undefined where a number is expected
Null == -2
NoPos == Null
NoRecord == [outline |-> <<>>, article |-> <<>>]

\* send_topic.js getCurrentPos
getCurrentPos == windowCurrentPos

\* how the server may answer a JSON request
Outcomes == {"success", "not_success", "http_error", "rejected"}

\* ------------------------------------------------------------- requests
OutlineSave(content, pos) ==
  [type |-> "outline_save", content |-> content, pos |-> pos, shown |-> shownPos]

\* send_topic.js saveOutlineToHistory: nothing is sent for a blank outline
saveOutlineToHistory(content) ==
  IF Trim(content) = <<>> THEN <<>> ELSE <<OutlineSave(content, getCurrentPos)>>

\* history_outline.js saveHistoryOutlineChanges
HistoryTargetPos == IF selectedPos # Null THEN selectedPos ELSE windowCurrentPos

saveHistoryOutlineChanges(ns) ==
  IF ns = <<>> THEN <<>> ELSE <<OutlineSave(SerializeHistory(ns), HistoryTargetPos)>>

\* ------------------------------------------------ the backend (from the spec)
NewRecord(outline) == [outline |-> outline, article |-> <<>>]
SrvNewTopic(s, outline) ==
  [currentPos |-> Len(s.records), records |-> Append(s.records, NewRecord(outline))]
SrvSetPos(s, pos) == [s EXCEPT !.currentPos = pos]
SrvHasRecord(s, pos) == pos + 1 \in 1..Len(s.records)

\* -------------------------------------------------------- article container
Absent == [present |-> FALSE, title |-> "", progress |-> FALSE,
           complete |-> FALSE, items |-> <<>>]

\* clearArticleContainer leaving the container in the page
clearArticleContainerKeeps(c) == c

\* article_utils.js clearArticleContainer
clearArticleContainer(c) == Absent

\* article_utils.js createArticleContainer: any existing container is removed
createArticleContainer(title) ==
  [present |-> TRUE, title |-> title, progress |-> FALSE,
   complete |-> FALSE, items |-> <<>>]

\* a .chapter-item and a .chapter-error element; by is the run whose stream
\* made the error block, busy its disabled retry button
Chapter(index, body) ==
  [kind |-> "chapter", index |-> index, body |-> body, by |-> 0, busy |-> FALSE]
ErrorBlock(index, by) ==
  [kind |-> "error", index |-> index, body |-> "", by |-> by, busy |-> FALSE]

\* history_outline.js displayArticleContent: one chapter per '## ' heading,
\* numbered from 0, then the completion block
displayArticleContent(article) ==
  [present |-> TRUE, title |-> "Historical Article", progress |-> FALSE,
   complete |-> TRUE,
   items |-> [i \in 1..Len(article) |-> Chapter(i - 1, article[i])]]

\* ---------------------------------------------------------- outline editor
\* send_topic.js updateOutlineData, as <<new hidden input, requests>>
UpdateWith(data) == <<data, IF skipSave THEN <<>> ELSE saveOutlineToHistory(data)>>
updateOutlineData(ns) == UpdateWith(SerializeOutline(ns))

\* history_outline.js updateOutlineData(false) followed by
\* saveHistoryOutlineChanges: nothing happens without outline blocks
HistoryUpdate(ns) ==
  <<IF ns = <<>> THEN hiddenInput ELSE SerializeHistory(ns),
    saveHistoryOutlineChanges(ns)>>

\* what an edit handler does after it changed the blocks
EditorUpdate(ns) == IF editorMode = "history" THEN HistoryUpdate(ns) ELSE updateOutlineData(ns)

\* the blocks after a handler changed them to ns and updated the outline
SetBlocks(ns, u) == nodes' = ns /\ hiddenInput' = u[1] /\ out' = u[2]
Changed(ns) == SetBlocks(ns, EditorUpdate(ns))

\* send_topic.js displayOutlineInSidebar(outlineContent); flag is the value of
\* the skip-save flag, newShown the record the content belongs to
DisplayLive(content, flag, newShown) ==
  LET lines == OutlineLines(content)
      blocks == ParseOutline(content)
      data == SerializeOutline(blocks)
  IN IF lines = <<>>
     THEN /\ nodes' = <<>>
          /\ editorMode' = "none"
          /\ sortingEnabled' = FALSE
          /\ shownPos' = NoPos
          /\ skipSave' = flag
          /\ hiddenInput' = hiddenInput
          /\ out' = <<>>
     ELSE /\ nodes' = blocks
          /\ editorMode' = "live"
          /\ sortingEnabled' = FALSE
          /\ shownPos' = newShown
          /\ hiddenInput' = data
          /\ skipSave' = FALSE
          /\ out' = IF flag THEN <<>>
                    ELSE (IF Trim(data) = <<>> THEN <<>>
                          ELSE <<[type |-> "outline_save", content |-> data,
                                  pos |-> getCurrentPos', shown |-> newShown]>>)
                         \o (IF Trim(content) = <<>> THEN <<>>
                             ELSE <<[type |-> "outline_save", content |-> content,
                                     pos |-> getCurrentPos', shown |-> newShown]>>)

\* history_outline.js displayOutlineInSidebar(outlineContent): the blocks are
\* rebuilt with the history handlers; the hidden input is not written
DisplayHistory(content, newShown) ==
  LET lines == OutlineLines(content)
  IN /\ nodes' = ParseOutline(content)
     /\ editorMode' = IF lines = <<>> THEN "none" ELSE "history"
     /\ shownPos' = IF lines = <<>> THEN NoPos ELSE newShown
     /\ sortingEnabled' = FALSE
     /\ UNCHANGED <<hiddenInput, skipSave>>

\* ------------------------------------------------------- sequence helpers
RemoveAt(sq, i) == SubSeq(sq, 1, i - 1) \o SubSeq(sq, i + 1, Len(sq))
InsertAt(sq, i, x) == SubSeq(sq, 1, i - 1) \o <<x>> \o SubSeq(sq, i, Len(sq))
MoveTo(sq, i, j) == InsertAt(RemoveAt(sq, i), j, sq[i])
SetDrag(ns, b) == [i \in 1..Len(ns) |-> [ns[i] EXCEPT !.drag = b]]

\* the history overlay covers the whole page (position fixed, z-index 3000):
\* while it is shown no control of the page under it can be clicked
PageFree == ~dialog.open

\* ------------------------------------------------------------ page load
\* send_topic.js initializeGlobalPosManager, run on DOMContentLoaded
PosInitResponse(o) ==
  /\ posInit = "pending"
  /\ posInit' = "done"
  /\ windowCurrentPos' = IF o = "success" THEN srv.currentPos ELSE windowCurrentPos
  /\ out' = <<>>
  /\ UNCHANGED <<editorVars, histVars, gsp, srv, topic, container>>
  /\ notice' = Quiet

\* ----------------------------------------------------- topic submission
\* send_topic.js sendTopicToBackend up to the fetch of /api/generate/outlines;
\* one submission is in flight at a time
SendTopic(text) ==
  /\ PageFree
  /\ topic.pc = "idle"
  /\ Len(srv.records) <= MaxPos
  /\ IF Trim(text) = <<>>
     THEN UNCHANGED <<topic, container>> /\ out' = <<>>
     ELSE /\ topic' = [pc |-> "outline", data |-> <<>>]
          /\ container' = clearArticleContainer(container)
          /\ out' = <<[type |-> "generate_outline", prompt |-> Trim(text)]>>
  /\ UNCHANGED <<editorVars, posVars, histVars, gsp, srv>>
  /\ notice' = Quiet

\* the outline request is answered (directly or by the demo fallback)
OutlineResponse(ok, data) ==
  /\ topic.pc = "outline"
  /\ IF ok
     THEN /\ topic' = [pc |-> "pos", data |-> data]
          /\ srv' = SrvNewTopic(srv, data)
     ELSE /\ topic' = [pc |-> "idle", data |-> <<>>]
          /\ UNCHANGED srv
  /\ out' = IF ok THEN <<[type |-> "get_current_pos"]>> ELSE <<>>
  /\ UNCHANGED <<editorVars, posVars, histVars, gsp, container>>
  /\ notice' = Quiet

\* /api/generate/outlines answers with a non-2xx status: the canned outline
\* is posted to /api/generate/demooutline
OutlineHttpError ==
  /\ topic.pc = "outline"
  /\ topic' = [topic EXCEPT !.pc = "fallback"]
  /\ out' = <<[type |-> "demo_outline"]>>
  /\ UNCHANGED <<editorVars, posVars, histVars, gsp, srv, container>>
  /\ notice' = Quiet

\* the fallback request is answered; a non-2xx answer or a rejected fetch
\* ends the submission in the catch block
FallbackResponse(ok, data) ==
  /\ topic.pc = "fallback"
  /\ IF ok
     THEN /\ topic' = [pc |-> "pos", data |-> data]
          /\ srv' = SrvNewTopic(srv, data)
     ELSE /\ topic' = [pc |-> "idle", data |-> <<>>]
          /\ UNCHANGED srv
  /\ out' = IF ok THEN <<[type |-> "get_current_pos"]>> ELSE <<>>
  /\ UNCHANGED <<editorVars, posVars, histVars, gsp, container>>
  /\ notice' = Quiet

\* the awaited initializeGlobalPosManager returns; the outline is displayed
\* with the skip-save flag set
TopicPosResponse(o) ==
  /\ topic.pc = "pos"
  /\ windowCurrentPos' = IF o = "success" THEN srv.currentPos ELSE windowCurrentPos
  /\ DisplayLive(topic.data, TRUE, Len(srv.records) - 1)
  /\ topic' = [pc |-> "idle", data |-> <<>>]
  /\ UNCHANGED <<posInit, histVars, gsp, srv, container>>
  /\ notice' = Quiet

\* ------------------------------------------------------- editor handlers
MaxDialogLevel == 4
DialogLevels == 1..MaxDialogLevel

\* a dialog that passes on whatever was typed
DialogAcceptsAnything(raw) == TRUE

\* showEditDialog, confirm button: the trimmed text must not be empty
DialogAccepts(raw) == Trim(raw) # <<>>

\* ADD button, dialog confirmed with the input value raw
Add(raw, level) ==
  /\ PageFree
  /\ editorMode \in {"live", "history"}
  /\ Len(nodes) < MaxNodes
  /\ IF ~DialogAccepts(raw)
     THEN UNCHANGED <<nodes, hiddenInput>> /\ out' = <<>>
     ELSE Changed(refreshOutlineNumbering(
                    Append(nodes, Node(level, HtmlText(Trim(raw))))))
  /\ UNCHANGED <<sortingEnabled, skipSave, editorMode, shownPos, posVars,
                 histVars, gsp, srv, topic, container>>
  /\ notice' = Shown(~DialogAccepts(raw), FALSE)

\* edit button of block i, dialog confirmed
Edit(i, raw, level) ==
  /\ PageFree
  /\ editorMode \in {"live", "history"}
  /\ i \in 1..Len(nodes)
  /\ IF ~DialogAccepts(raw)
     THEN UNCHANGED <<nodes, hiddenInput>> /\ out' = <<>>
     ELSE Changed(refreshOutlineNumbering(
                    [nodes EXCEPT ![i].text = Trim(raw), ![i].level = level]))
  /\ UNCHANGED <<sortingEnabled, skipSave, editorMode, shownPos, posVars,
                 histVars, gsp, srv, topic, container>>
  /\ notice' = Shown(~DialogAccepts(raw), FALSE)

\* delete button of block i
Delete(i) ==
  /\ PageFree
  /\ editorMode \in {"live", "history"}
  /\ i \in 1..Len(nodes)
  /\ Changed(refreshOutlineNumbering(RemoveAt(nodes, i)))
  /\ UNCHANGED <<sortingEnabled, skipSave, editorMode, shownPos, posVars,
                 histVars, gsp, srv, topic, container>>
  /\ notice' = Quiet

\* a SORT / STOP button that only switches the drag mode
SortToggleDomOnly ==
  /\ PageFree
  /\ editorMode \in {"live", "history"}
  /\ sortingEnabled' = ~sortingEnabled
  /\ nodes' = SetDrag(nodes, ~sortingEnabled) /\ UNCHANGED hiddenInput /\ out' = <<>>
  /\ UNCHANGED <<skipSave, editorMode, shownPos, posVars, histVars, gsp, srv,
                 topic, container>>
  /\ notice' = Quiet

\* SORT / STOP button
SortToggle ==
  /\ PageFree
  /\ editorMode \in {"live", "history"}
  /\ sortingEnabled' = ~sortingEnabled
  /\ IF ~sortingEnabled
     THEN nodes' = SetDrag(nodes, TRUE) /\ UNCHANGED hiddenInput /\ out' = <<>>
     ELSE Changed(refreshOutlineNumbering(SetDrag(nodes, FALSE)))
  /\ UNCHANGED <<skipSave, editorMode, shownPos, posVars, histVars, gsp, srv,
                 topic, container>>
  /\ notice' = Quiet

\* a draggable block i is dragged and dropped at index j; DOM only
Reorder(i, j) ==
  /\ PageFree
  /\ editorMode \in {"live", "history"}
  /\ sortingEnabled
  /\ i \in 1..Len(nodes) /\ j \in 1..Len(nodes) /\ i # j
  /\ nodes[i].drag
  /\ nodes' = MoveTo(nodes, i, j)
  /\ out' = <<>>
  /\ UNCHANGED <<hiddenInput, sortingEnabled, skipSave, editorMode, shownPos,
                 posVars, histVars, gsp, srv, topic, container>>
  /\ notice' = Quiet

\* ------------------------------------------------------- history dialog
\* had records whether an article container was in the page at the click
NoLoad == [pc |-> "idle", pos |-> Null, rec |-> NoRecord, posted |-> Null,
           refsLeft |-> 0, btn |-> FALSE, status |-> "none", had |-> FALSE]

\* the history button: showHistoryDialog, up to the first fetch of
\* loadHistoryOutlines (loadCurrentPos)
OpenHistory ==
  /\ PageFree
  /\ dialog.fetch = "none"
  /\ dialog' = [open |-> TRUE, fetch |-> "curpos", items |-> 0, loadBtn |-> FALSE]
  /\ out' = <<[type |-> "get_current_pos"]>>
  /\ UNCHANGED <<editorVars, posVars, hmCurrentPos, selectedPos, load, gsp,
                 srv, topic, container>>
  /\ notice' = Quiet

\* history_outline.js loadCurrentPos answered inside loadHistoryOutlines
HistPosResponse(o) ==
  /\ dialog.fetch = "curpos"
  /\ hmCurrentPos' = IF o = "success" THEN srv.currentPos ELSE hmCurrentPos
  /\ dialog' = [dialog EXCEPT !.fetch = "records"]
  /\ out' = <<[type |-> "get_records"]>>
  /\ UNCHANGED <<editorVars, posVars, selectedPos, load, gsp, srv, topic, container>>
  /\ notice' = Quiet

\* GET /api/session/records answered: the list is rendered when the answer
\* is a success with at least one record and the dialog is still there
HistRecordsResponse(o) ==
  /\ dialog.fetch = "records"
  /\ LET listed == o = "success" /\ Len(srv.records) > 0
     IN /\ hmCurrentPos' = IF listed THEN srv.currentPos ELSE hmCurrentPos
        /\ dialog' = [dialog EXCEPT !.fetch = "none",
                        !.items = IF listed /\ dialog.open THEN Len(srv.records) ELSE 0]
  /\ out' = <<>>
  /\ UNCHANGED <<editorVars, posVars, selectedPos, load, gsp, srv, topic, container>>
  /\ notice' = Quiet

\* history_outline.js selectRecord(pos), the click on a listed record
SelectRecord(pos) ==
  /\ dialog.open
  /\ pos + 1 \in 1..dialog.items
  /\ selectedPos' = pos
  /\ dialog' = [dialog EXCEPT !.loadBtn = TRUE]
  /\ out' = <<>>
  /\ UNCHANGED <<editorVars, posVars, hmCurrentPos, load, gsp, srv, topic, container>>
  /\ notice' = Quiet

\* history_outline.js closeHistoryDialog by the close or cancel button: the
\* overlay goes, selectedPos stays
CloseHistory ==
  /\ dialog.open
  /\ dialog' = [dialog EXCEPT !.open = FALSE, !.items = 0, !.loadBtn = FALSE]
  /\ load' = [load EXCEPT !.btn = FALSE]
  /\ out' = <<>>
  /\ UNCHANGED <<editorVars, posVars, hmCurrentPos, selectedPos, gsp, srv, topic,
                 container>>
  /\ notice' = Quiet

\* history_outline.js loadSelectedOutline up to the fetch of the record
LoadClick ==
  /\ dialog.open /\ dialog.loadBtn
  /\ selectedPos # Null
  /\ load.pc = "idle"
  /\ dialog' = [dialog EXCEPT !.loadBtn = FALSE]
  /\ container' = clearArticleContainer(container)
  /\ load' = [NoLoad EXCEPT !.pc = "record", !.pos = selectedPos, !.btn = TRUE,
                            !.had = container.present]
  /\ out' = <<[type |-> "get_record", pos |-> selectedPos]>>
  /\ UNCHANGED <<editorVars, posVars, hmCurrentPos, selectedPos, gsp, srv, topic>>
  /\ notice' = Quiet

\* loadSelectedOutline fails: the catch block re-enables the load button
LoadFailed ==
  /\ load' = [NoLoad EXCEPT !.status = "failed"]
  /\ dialog' = IF load.btn THEN [dialog EXCEPT !.loadBtn = TRUE] ELSE dialog

\* loadSelectedOutline ends: closeHistoryDialog and the success notification
LoadDone(rec) ==
  /\ load' = [NoLoad EXCEPT !.status = "loaded", !.pos = load.pos, !.had = load.had]
  /\ dialog' = [dialog EXCEPT !.open = FALSE, !.items = 0, !.loadBtn = FALSE]

\* the article part of loadSelectedOutline (lines 476-499) for record rec:
\* a record with an article is displayed and its references are fetched
\* chapter by chapter; without one the container is cleared
LoadArticle(rec) ==
  IF rec.article # <<>>
  THEN /\ container' = displayArticleContent(rec.article)
       /\ load' = [load EXCEPT !.pc = "refs", !.rec = rec,
                               !.refsLeft = Len(rec.article)]
       /\ UNCHANGED dialog
  ELSE /\ container' = clearArticleContainer(container)
       /\ LoadDone(rec)

\* GET /api/session/records/{pos} answered
LoadRecordResponse(o) ==
  /\ load.pc = "record"
  /\ IF o = "success" /\ SrvHasRecord(srv, load.pos)
     THEN LET rec == srv.records[load.pos + 1]
          IN IF rec.outline # <<>>
             THEN /\ DisplayHistory(rec.outline, load.pos)
                  /\ load' = [load EXCEPT !.pc = "setpos", !.rec = rec,
                                          !.posted = selectedPos]
                  /\ out' = <<[type |-> "set_pos", pos |-> selectedPos]>>
                  /\ UNCHANGED <<dialog, container>>
             ELSE /\ LoadArticle(rec)
                  /\ out' = <<>>
                  /\ UNCHANGED editorVars
     ELSE /\ LoadFailed
          /\ out' = <<>>
          /\ UNCHANGED <<editorVars, container>>
  /\ UNCHANGED <<posVars, hmCurrentPos, selectedPos, gsp, srv, topic>>
  /\ notice' = Quiet

\* history_outline.js setCurrentPos answered inside loadSelectedOutline: on
\* confirmation the manager's copy is set to the posted position, then the
\* caller copies this.selectedPos into window.currentPos and this.currentPos
LoadSetPosResponse(o) ==
  /\ load.pc = "setpos"
  /\ IF o = "success"
     THEN /\ srv' = SrvSetPos(srv, load.posted)
          /\ windowCurrentPos' = selectedPos
          /\ hmCurrentPos' = selectedPos
          /\ load' = [load EXCEPT !.pc = "curpos"]
          /\ out' = <<[type |-> "get_current_pos"]>>
          /\ UNCHANGED <<dialog, container>>
     ELSE /\ LoadArticle(load.rec)
          /\ out' = <<>>
          /\ UNCHANGED <<srv, windowCurrentPos, hmCurrentPos>>
  /\ UNCHANGED <<editorVars, posInit, selectedPos, gsp, topic>>
  /\ notice' = Quiet

\* the loadCurrentPos that follows a confirmed position
LoadCurPosResponse(o) ==
  /\ load.pc = "curpos"
  /\ hmCurrentPos' = IF o = "success" THEN srv.currentPos ELSE hmCurrentPos
  /\ LoadArticle(load.rec)
  /\ out' = <<>>
  /\ UNCHANGED <<editorVars, posVars, selectedPos, gsp, srv, topic>>
  /\ notice' = Quiet

\* history_outline.js loadArticleReferences: one chapter's references are
\* answered; after the last one the load ends
LoadRefsResponse ==
  /\ load.pc = "refs"
  /\ IF load.refsLeft > 1
     THEN load' = [load EXCEPT !.refsLeft = @ - 1] /\ UNCHANGED dialog
     ELSE LoadDone(load.rec)
  /\ out' = <<>>
  /\ UNCHANGED <<editorVars, posVars, hmCurrentPos, selectedPos, gsp, srv, topic,
                 container>>
  /\ notice' = Quiet

\* ------------------------------------------- the global setCurrentPos
\* send_topic.js setCurrentPos(pos) up to its fetch
SetCurrentPosCall(pos) ==
  /\ gsp.pc = "idle"
  /\ gsp' = [pc |-> "post", pos |-> pos, before |-> getCurrentPos, result |-> "none"]
  /\ out' = <<[type |-> "set_pos", pos |-> pos]>>
  /\ UNCHANGED <<editorVars, posVars, histVars, srv, topic, container>>
  /\ notice' = Quiet

\* send_topic.js setCurrentPos answered
SetCurrentPosResponse(o) ==
  /\ gsp.pc = "post"
  /\ windowCurrentPos' = IF o = "success" THEN gsp.pos ELSE windowCurrentPos
  /\ srv' = IF o = "success" THEN SrvSetPos(srv, gsp.pos) ELSE srv
  /\ gsp' = [gsp EXCEPT !.pc = "idle", !.result = IF o = "success" THEN "true" ELSE "false",
                        !.before = getCurrentPos]
  /\ out' = <<>>
  /\ UNCHANGED <<editorVars, posInit, histVars, topic, container>>
  /\ notice' = Quiet

\* ------------------------------------------------------ article generation
MaxGenerate == 1
MaxRuns == 2
MaxIndex == 2
Undefined == <<"undefined">>

\* line => line.trim().startsWith('#')
StartsWithHash(line) == LET t == Trim(line) IN t # <<>> /\ t[1] = "#"

RECURSIVE CountHash(_)
CountHash(ls) ==
  IF ls = <<>> THEN 0
  ELSE (IF StartsWithHash(Head(ls)) THEN 1 ELSE 0) + CountHash(Tail(ls))

\* outlineData.split('\n').filter(line => line.trim().startsWith('#')).length
HeadingCount(text) == CountHash(SplitLines(text))

\* article_utils.js getCurrentOutlineText without a hidden input value: every
\* block is read at level 1 (the level attribute is looked up on the
\* .outline-item element, which has none)
RECURSIVE DomOutlineText(_)
DomOutlineText(ns) ==
  IF ns = <<>> THEN <<>>
  ELSE <<"#", " ">> \o Trim(Head(ns).text) \o <<NL>> \o DomOutlineText(Tail(ns))

\* article_utils.js getCurrentOutlineText for a hidden input value and blocks
OutlineTextOf(hidden, ns) == IF hidden # <<>> THEN hidden ELSE Trim(DomOutlineText(ns))
getCurrentOutlineText == OutlineTextOf(hiddenInput, nodes)

\* a generation request: pos is the position its body carries (Null until
\* it is sent), rendered holds the chapter indices its stream has
\* rendered, in arrival order; errSeen and complete say which lines its
\* stream has carried, fatal that an error block was displayed
NewRun(kind, pc, start) ==
  [kind |-> kind, pc |-> pc, start |-> start, pos |-> Null, complete |-> FALSE,
   errSeen |-> FALSE, fatal |-> FALSE, rendered |-> <<>>]

SeqRange(sq) == {sq[k] : k \in 1..Len(sq)}

\* a displayed CHAPTER_ERROR that does not abort the read loop
AfterChapterErrorReadsOn(run) == [run EXCEPT !.errSeen = TRUE, !.fatal = TRUE]

\* handleStreamLine throws 'Network error occurred, generation stopped', the
\* read loop is left and the catch block of the stream function runs
AfterChapterError(run) ==
  [run EXCEPT !.errSeen = TRUE, !.fatal = TRUE, !.pc = "caught"]

FullRuns == SelectSeq(runs, LAMBDA run : run.kind = "full")

\* generate_article.js showOverallProgress: throws without a container
showOverallProgress(c) == [c EXCEPT !.progress = TRUE]

\* generate_article.js removeProgress
removeProgress(c) == IF c.present THEN [c EXCEPT !.progress = FALSE] ELSE c

\* article_utils.js displayArticleComplete: nothing without a container
displayArticleComplete(c, updateTitle) ==
  IF ~c.present THEN c
  ELSE [c EXCEPT !.complete = TRUE,
                 !.title = IF updateTitle THEN "Finished!" ELSE c.title]

\* index of the first element of items accepted by the scan whose index is
\* greater than idx, or Len(items) + 1
RECURSIVE FirstGreater(_, _, _, _)
FirstGreater(items, kinds, idx, k) ==
  IF k > Len(items) THEN k
  ELSE IF items[k].kind \in kinds /\ items[k].index > idx THEN k
  ELSE FirstGreater(items, kinds, idx, k + 1)

\* createCollapsibleChapter appending every chapter
createCollapsibleChapterAppends(c, idx, body) ==
  [c EXCEPT !.items = Append(c.items, Chapter(idx, body))]

\* generate_article.js createCollapsibleChapter: only .chapter-item elements
\* are scanned
createCollapsibleChapter(c, idx, body) ==
  [c EXCEPT !.items = InsertAt(c.items, FirstGreater(c.items, {"chapter"}, idx, 1),
                               Chapter(idx, body))]

\* the insertion of article_utils.js retryChapterGeneration: chapters and
\* error blocks are scanned
InsertChapterAmongAll(c, idx, body) ==
  [c EXCEPT !.items = InsertAt(c.items,
                               FirstGreater(c.items, {"chapter", "error"}, idx, 1),
                               Chapter(idx, body))]

\* displayChapterNetworkError: chapters and error blocks are scanned
displayChapterNetworkError(c, idx, by) ==
  [c EXCEPT !.items = InsertAt(c.items,
                               FirstGreater(c.items, {"chapter", "error"}, idx, 1),
                               ErrorBlock(idx, by))]

ChapterItems(c) == SelectSeq(c.items, LAMBDA it : it.kind = "chapter")
ChapterIndices(c) == [k \in 1..Len(ChapterItems(c)) |-> ChapterItems(c)[k].index]

\* the GENERATE button: generateArticle up to the await of the outline sync
GenerateClickWithin(limit) ==
  /\ PageFree
  /\ Len(runs) < MaxRuns /\ Len(FullRuns) < limit
  /\ LET u == updateOutlineData(nodes)
         text == OutlineTextOf(u[1], nodes)
     IN /\ hiddenInput' = u[1]
        /\ IF text = <<>>
           THEN /\ out' = u[2]
                /\ UNCHANGED <<runs, modOutlineData>>
           ELSE /\ modOutlineData' = text
                /\ out' = u[2] \o <<OutlineSave(text, getCurrentPos)>>
                /\ runs' = Append(runs, NewRun("full", "sync", 0))
  /\ UNCHANGED <<nodes, sortingEnabled, skipSave, editorMode, shownPos, posVars,
                 histVars, gsp, srv, topic, container, winOutlineData, winTotal,
                 winCompleted, saveTimers, contTimers, retries, retryVariant,
                 chapterDataStore>>
  /\ notice' = Shown(runs' = runs, FALSE)

GenerateClick == GenerateClickWithin(MaxGenerate)

\* updateOutlineInBackend settles either way; the container is initialized,
\* the progress element shown and /api/generate/articles requested
GenSyncResponse(r) ==
  /\ r \in 1..Len(runs) /\ runs[r].pc = "sync"
  /\ winTotal' = HeadingCount(modOutlineData)
  /\ winCompleted' = 0
  /\ winOutlineData' = modOutlineData
  /\ container' = showOverallProgress(createArticleContainer("Generated Article"))
  /\ runs' = [runs EXCEPT ![r].pc = "fetch", ![r].pos = getCurrentPos]
  /\ out' = <<[type |-> "generate_article", outline |-> modOutlineData,
               start |-> 0, pos |-> getCurrentPos]>>
  /\ UNCHANGED <<editorVars, posVars, histVars, gsp, srv, topic, modOutlineData,
                 saveTimers, contTimers, retries, retryVariant,
                 chapterDataStore>>
  /\ notice' = Quiet

\* a catch block that starts the generation again
CaughtRetries(r) ==
  <<[type |-> "generate_article", outline |-> modOutlineData, start |-> 0,
     pos |-> getCurrentPos]>>

\* the requests of the catch block of generateArticleStream and of
\* continueGenerationFromChapter: a notification and cleanupLoadingStates
CaughtRequests(r) == <<>>

\* the response of a generation request arrives: a non-2xx answer or a
\* rejected fetch goes to the catch block
RunResponse(r, ok) ==
  /\ r \in 1..Len(runs) /\ runs[r].pc = "fetch"
  /\ runs' = [runs EXCEPT ![r].pc = IF ok THEN "reading" ELSE "caught"]
  /\ out' = IF ok THEN <<>> ELSE CaughtRequests(r)
  /\ UNCHANGED <<editorVars, posVars, histVars, gsp, srv, topic, container,
                 modOutlineData, winOutlineData, winTotal, winCompleted,
                 saveTimers, contTimers, retries, retryVariant,
                 chapterDataStore>>
  /\ notice' = Shown(~ok, ~ok)

\* the lines a response stream may carry; good says whether the payload is
\* JSON of the expected shape
Line(tag, index, good) == [tag |-> tag, index |-> index, good |-> good]
Lines ==
  {Line("CHAPTER_DATA", i, TRUE) : i \in 0..MaxIndex}
  \cup {Line("CHAPTER_ERROR", i, TRUE) : i \in 0..MaxIndex}
  \cup {Line("CHAPTER_DATA", 0, FALSE), Line("CHAPTER_ERROR", 0, FALSE),
        Line("ARTICLE_COMPLETE", 0, TRUE), Line("OTHER", 0, TRUE)}

\* the backend's stream (from the spec): a chapter index is carried at most
\* once per stream and ARTICLE_COMPLETE is its last line
ServerSends(r, line) ==
  /\ ~runs[r].complete
  /\ line.tag = "CHAPTER_DATA" /\ line.good => line.index \notin SeqRange(runs[r].rendered)

\* JSON.parse(jsonStr) returns instead of throwing
JsonParsesAnything(line) == TRUE
JsonParses(line) == line.good

\* history_outline.js window.saveChapterData, called with the data of a
\* chapter (the backend attaches references to every chapter it sends)
saveChapterDataSkipped(index) == chapterDataStore
saveChapterData(index) == chapterDataStore \cup {index}

\* a line handler that reports nothing
LineUnreported(line) == Quiet

\* the error notifications of handleStreamLine and of the catch block its
\* exception reaches: a chapter that cannot be parsed or rendered is reported;
\* a chapter error that was displayed is rethrown to the catch block of the
\* read loop, any other exception of that branch is only logged
LineShown(line) ==
  CASE line.tag = "CHAPTER_DATA" ->
         Shown(~(JsonParses(line) /\ container.present), FALSE)
    [] line.tag = "CHAPTER_ERROR" ->
         Shown(line.good /\ container.present, line.good /\ container.present)
    [] line.tag = "ARTICLE_COMPLETE" -> Shown(FALSE, TRUE)
    [] OTHER -> Quiet

\* generate_article.js handleStreamLine for one complete line of run r
StreamLine(r, line) ==
  /\ r \in 1..Len(runs) /\ runs[r].pc = "reading"
  /\ ServerSends(r, line)
  /\ CASE line.tag = "CHAPTER_DATA" ->
            /\ chapterDataStore' = IF JsonParses(line) THEN saveChapterData(line.index)
                                   ELSE chapterDataStore
            /\ IF JsonParses(line) /\ container.present
               THEN /\ container' = createCollapsibleChapter(container, line.index, "gen")
                    /\ winCompleted' = winCompleted + 1
                    /\ runs' = [runs EXCEPT ![r].rendered = Append(@, line.index)]
                    /\ UNCHANGED saveTimers
               ELSE UNCHANGED <<runs, container, winCompleted, saveTimers>>
       [] line.tag = "CHAPTER_ERROR" ->
            /\ IF line.good /\ container.present
               THEN /\ container' = displayChapterNetworkError(container, line.index, r)
                    /\ runs' = [runs EXCEPT ![r] = AfterChapterError(@)]
                    /\ UNCHANGED <<winCompleted, saveTimers>>
               ELSE /\ runs' = [runs EXCEPT ![r].errSeen = TRUE]
                    /\ UNCHANGED <<container, winCompleted, saveTimers>>
            /\ UNCHANGED chapterDataStore
       [] line.tag = "ARTICLE_COMPLETE" ->
            /\ container' = displayArticleComplete(removeProgress(container), TRUE)
            /\ runs' = [runs EXCEPT ![r].complete = TRUE]
            /\ saveTimers' = Append(saveTimers, r)
            /\ UNCHANGED <<winCompleted, chapterDataStore>>
       [] OTHER ->
            UNCHANGED <<runs, container, winCompleted, saveTimers, chapterDataStore>>
  /\ out' = <<>>
  /\ UNCHANGED <<editorVars, posVars, histVars, gsp, srv, topic, modOutlineData,
                 winOutlineData, winTotal, contTimers, retries, retryVariant>>
  /\ notice' = LineShown(line)

\* reader.read() reports done: the read loop ends and the function returns
StreamEnd(r) ==
  /\ r \in 1..Len(runs) /\ runs[r].pc = "reading"
  /\ runs' = [runs EXCEPT ![r].pc = "returned"]
  /\ out' = <<>>
  /\ UNCHANGED <<editorVars, posVars, histVars, gsp, srv, topic, container,
                 modOutlineData, winOutlineData, winTotal, winCompleted,
                 saveTimers, contTimers, retries, retryVariant,
                 chapterDataStore>>
  /\ notice' = Quiet

\* reader.read() rejects (connection lost): the catch block runs
StreamAbort(r) ==
  /\ r \in 1..Len(runs) /\ runs[r].pc = "reading"
  /\ runs' = [runs EXCEPT ![r].pc = "caught"]
  /\ out' = CaughtRequests(r)
  /\ UNCHANGED <<editorVars, posVars, histVars, gsp, srv, topic, container,
                 modOutlineData, winOutlineData, winTotal, winCompleted,
                 saveTimers, contTimers, retries, retryVariant,
                 chapterDataStore>>
  /\ notice' = Shown(TRUE, TRUE)

\* a content that holds the last chapter only
getLastChapterContent(c) ==
  IF ChapterIndices(c) = <<>> THEN <<>>
  ELSE <<ChapterIndices(c)[Len(ChapterIndices(c))]>>

\* article_utils.js getCurrentArticleContent: the chapters of the container
\* in document order
getCurrentArticleContent(c) == ChapterIndices(c)

\* article_utils.js saveArticleToCloud: referencesToSave has an entry for
\* every chapter of window.chapterDataStore (each chapter carrying references)
referencesToSave == chapterDataStore

\* the timer set by ARTICLE_COMPLETE fires: saveCompleteArticleToHistory
\* posts the chapters of the container, or nothing when there are none
SaveTimer ==
  /\ saveTimers # <<>>
  /\ saveTimers' = Tail(saveTimers)
  /\ out' = IF getCurrentArticleContent(container) = <<>> THEN <<>>
            ELSE <<[type |-> "article_save", pos |-> getCurrentPos,
                    chapters |-> getCurrentArticleContent(container),
                    references |-> referencesToSave,
                    mode |-> "replace", run |-> Head(saveTimers)]>>
  /\ UNCHANGED <<editorVars, posVars, histVars, gsp, srv, topic, container, runs,
                 modOutlineData, winOutlineData, winTotal, winCompleted,
                 contTimers, retries, retryVariant,
                 chapterDataStore>>
  /\ notice' = Quiet

\* ------------------------------------------------------- retry of a chapter
\* position in items of the first error block for chapter idx, or 0:
\* document.getElementById('chapter-error-' + idx)
RECURSIVE FindError(_, _, _)
FindError(items, idx, k) ==
  IF k > Len(items) THEN 0
  ELSE IF items[k].kind = "error" /\ items[k].index = idx THEN k
  ELSE FindError(items, idx, k + 1)

\* position in items of the error block made by run by, or 0
RECURSIVE FindErrorBy(_, _, _)
FindErrorBy(items, by, k) ==
  IF k > Len(items) THEN 0
  ELSE IF items[k].kind = "error" /\ items[k].by = by THEN k
  ELSE FindErrorBy(items, by, k + 1)

\* window.outlineData || outlineData
RetryOutlineA ==
  IF winOutlineData # Undefined /\ winOutlineData # <<>> THEN winOutlineData
  ELSE modOutlineData

\* the Retry button of the error block for chapter idx, up to the fetch
RetryClick(idx) ==
  /\ PageFree
  /\ container.present
  /\ LET k == FindError(container.items, idx, 1)
     IN /\ k > 0
        /\ ~container.items[k].busy
        /\ container' = [container EXCEPT !.items[k].busy = TRUE]
        /\ LET sent == IF retryVariant = "generate_article" THEN RetryOutlineA
                       ELSE getCurrentOutlineText
           IN /\ retries' = retries \cup {[index |-> idx, by |-> container.items[k].by,
                                           outline |-> sent]}
              /\ out' = <<[type |-> "generate_single_chapter", outline |-> sent,
                           index |-> idx, pos |-> getCurrentPos]>>
  /\ UNCHANGED <<editorVars, posVars, histVars, gsp, srv, topic, runs,
                 modOutlineData, winOutlineData, winTotal, winCompleted,
                 saveTimers, contTimers, retryVariant,
                 chapterDataStore>>
  /\ notice' = Quiet

RetryResults == {"content", "error", "invalid", "http_error"}

\* a retry that leaves the error block in place
WithoutErrorKeeps(c, by) == c

\* the container after the retried error block (if still in it) is removed
WithoutError(c, by) ==
  LET k == FindErrorBy(c.items, by, 1)
  IN IF k = 0 THEN c ELSE [c EXCEPT !.items = RemoveAt(c.items, k)]

\* the container after the retry button of the error block is enabled again
WithRetryEnabled(c, by) ==
  LET k == FindErrorBy(c.items, by, 1)
  IN IF k = 0 THEN c ELSE [c EXCEPT !.items[k].busy = FALSE]

\* the chapter insertion of the retryChapterGeneration in force
RetryInsert(c, idx) ==
  IF retryVariant = "generate_article" THEN createCollapsibleChapter(c, idx, "gen")
  ELSE InsertChapterAmongAll(c, idx, "gen")

\* the outline whose headings decide whether chapters remain
RetryOutline(rt) == IF retryVariant = "generate_article" THEN RetryOutlineA ELSE rt.outline

\* the single-chapter request is answered
RetryResponse(rt, res) ==
  /\ rt \in retries
  /\ retries' = retries \ {rt}
  /\ chapterDataStore' = IF res = "content" THEN saveChapterData(rt.index)
                         ELSE chapterDataStore
  /\ IF res = "content" /\ container.present
     THEN LET c == RetryInsert(WithoutError(container, rt.by), rt.index)
              remaining == rt.index + 1 < HeadingCount(RetryOutline(rt))
          IN /\ container' = IF remaining THEN c ELSE displayArticleComplete(c, TRUE)
             /\ contTimers' = IF remaining THEN Append(contTimers, rt.index + 1)
                              ELSE contTimers
     ELSE /\ container' = IF res = "content" THEN container
                          ELSE WithRetryEnabled(container, rt.by)
          /\ UNCHANGED contTimers
  /\ out' = <<>>
  /\ UNCHANGED <<editorVars, posVars, histVars, gsp, srv, topic, runs,
                 modOutlineData, winOutlineData, winTotal, winCompleted,
                 saveTimers, retryVariant>>
  /\ notice' = Shown(~(res = "content" /\ container.present), FALSE)

\* the timer set by a successful retry fires: continueGenerationFromChapter
ContinueTimer ==
  /\ contTimers # <<>>
  /\ LET start == Head(contTimers)
         text == getCurrentOutlineText
         total == HeadingCount(text)
     IN /\ contTimers' = Tail(contTimers)
        /\ winTotal' = IF winTotal = Null THEN total ELSE winTotal
        /\ winCompleted' = start
        /\ IF total - start <= 0
           THEN /\ container' = displayArticleComplete(container, TRUE)
                /\ out' = <<>>
                /\ UNCHANGED runs
           ELSE /\ Len(runs) < MaxRuns
                /\ container' = IF container.present THEN showOverallProgress(container)
                                ELSE container
                /\ runs' = Append(runs, [NewRun("continue", "fetch", start)
                                           EXCEPT !.pos = getCurrentPos])
                /\ out' = <<[type |-> "continue_generation", outline |-> text,
                             start |-> start, pos |-> getCurrentPos]>>
  /\ UNCHANGED <<editorVars, posVars, histVars, gsp, srv, topic, modOutlineData,
                 winOutlineData, saveTimers, retries, retryVariant,
                 chapterDataStore>>
  /\ notice' = Quiet

\* ------------------------------------------------------------ initial state
\* the page after its scripts ran, in a session holding the records of sess
\* the private-library dialog at page load: hidden, nothing selected, the
\* Send Files button as a button is unless told otherwise
LibraryAtLoad == [open |-> FALSE, files |-> <<>>, disabled |-> FALSE, pc |-> "idle"]

InitPage(sess, variant) ==
  /\ notice = Quiet
  /\ library = LibraryAtLoad
  /\ nodes = <<>>
  /\ hiddenInput = <<>>
  /\ sortingEnabled = FALSE
  /\ skipSave = FALSE
  /\ editorMode = "none"
  /\ shownPos = NoPos
  /\ windowCurrentPos = Uninitialized
  /\ posInit = "pending"
  /\ hmCurrentPos = Uninitialized
  /\ selectedPos = Null
  /\ dialog = [open |-> FALSE, fetch |-> "none", items |-> 0, loadBtn |-> FALSE]
  /\ load = NoLoad
  /\ gsp = [pc |-> "idle", pos |-> Null, before |-> Uninitialized, result |-> "none"]
  /\ srv = sess
  /\ topic = [pc |-> "idle", data |-> <<>>]
  /\ container = Absent
  /\ runs = <<>>
  /\ modOutlineData = <<>>
  /\ winOutlineData = Undefined
  /\ winTotal = Null
  /\ winCompleted = Null
  /\ saveTimers = <<>>
  /\ contTimers = <<>>
  /\ retries = {}
  /\ retryVariant = variant
  /\ chapterDataStore = {}
  /\ out = <<>>

\* no response body is being read and no outline save is on its way
NoReader ==
  [body |-> <<>>, rest |-> <<>>, carry |-> <<>>, buffer |-> <<>>,
   handled |-> <<>>, reads |-> 0, done |-> TRUE]
InitWith(sess, variant) ==
  /\ InitPage(sess, variant)
  /\ reader = NoReader
  /\ inflight = <<>>

EmptySession == [currentPos |-> 0, records |-> <<>>]
RetryVariants == {"generate_article", "article_utils"}

NoGen == UNCHANGED genVars
NoNet == UNCHANGED netVars
NoLib == UNCHANGED library

\* ------------------------------------------------ the outline editor alone
MaxLevel == 2
LevelInputs == {l \in DialogLevels : l <= MaxLevel}
DialogInputs == UNION {[1..n -> Chars] : n \in 0..MaxTextLen}
TopicOutlines ==
  { <<"#", " ", "1">>,
    <<"#", " ", "1", NL, "#", "#", " ", "&lt;">>,
    <<"1">> }

InitOutline == InitWith(EmptySession, "generate_article")

NextOutline ==
  \/ \E o \in Outcomes : PosInitResponse(o) /\ NoGen /\ NoNet /\ NoLib
  \/ \E text \in {<<"1">>, <<" ">>} : SendTopic(text) /\ NoGen /\ NoNet /\ NoLib
  \/ \E ok \in BOOLEAN, data \in TopicOutlines : OutlineResponse(ok, data) /\ NoGen /\ NoNet /\ NoLib
  \/ \E o \in Outcomes : TopicPosResponse(o) /\ NoGen /\ NoNet /\ NoLib
  \/ \E raw \in DialogInputs, level \in LevelInputs : Add(raw, level) /\ NoGen /\ NoNet /\ NoLib
  \/ \E i \in 1..MaxNodes, raw \in DialogInputs, level \in LevelInputs :
        Edit(i, raw, level) /\ NoGen /\ NoNet /\ NoLib
  \/ \E i \in 1..MaxNodes : Delete(i) /\ NoGen /\ NoNet /\ NoLib
  \/ SortToggle /\ NoGen /\ NoNet /\ NoLib
  \/ \E i, j \in 1..MaxNodes : Reorder(i, j) /\ NoGen /\ NoNet /\ NoLib

SpecOutline == InitOutline /\ [][NextOutline]_vars

\* --------------------------------------- positions, history and the editor
OutlineA == <<"#", " ", "1">>
OutlineB == <<"#", "#", " ", "1">>
OutlineT == <<"#", " ", "1", NL, "#", " ", "1">>
RecordKinds ==
  { [outline |-> OutlineA, article |-> <<>>],
    [outline |-> OutlineB, article |-> <<"a">>],
    [outline |-> <<>>, article |-> <<"b">>] }
Sessions ==
  { [currentPos |-> p, records |-> rs] :
      p \in Positions, rs \in [1..MaxPos + 1 -> RecordKinds] }
PosOutcomes == {"success", "http_error"}

InitPos == \E sess \in Sessions :
             /\ SrvHasRecord(sess, sess.currentPos)
             /\ InitWith(sess, "generate_article")

NextPos ==
  \/ \E o \in PosOutcomes : PosInitResponse(o) /\ NoGen /\ NoNet /\ NoLib
  \/ OpenHistory /\ NoGen /\ NoNet /\ NoLib
  \/ \E o \in PosOutcomes : HistPosResponse(o) /\ NoGen /\ NoNet /\ NoLib
  \/ \E o \in PosOutcomes : HistRecordsResponse(o) /\ NoGen /\ NoNet /\ NoLib
  \/ \E pos \in Positions : SelectRecord(pos) /\ NoGen /\ NoNet /\ NoLib
  \/ CloseHistory /\ NoGen /\ NoNet /\ NoLib
  \/ LoadClick /\ NoGen /\ NoNet /\ NoLib
  \/ \E o \in PosOutcomes : LoadRecordResponse(o) /\ NoGen /\ NoNet /\ NoLib
  \/ \E o \in PosOutcomes : LoadSetPosResponse(o) /\ NoGen /\ NoNet /\ NoLib
  \/ \E o \in PosOutcomes : LoadCurPosResponse(o) /\ NoGen /\ NoNet /\ NoLib
  \/ LoadRefsResponse /\ NoGen /\ NoNet /\ NoLib

SpecPos == InitPos /\ [][NextPos]_vars

\* ------------------------------------------ outline saves and positions
SaveSessions ==
  { [currentPos |-> 0, records |-> rs] :
      rs \in UNION {[1..n -> {NewRecord(OutlineB)}] : n \in 1..MaxPos} }

InitSave == \E sess \in SaveSessions : InitWith(sess, "generate_article")

NextSave ==
  \/ \E o \in PosOutcomes : PosInitResponse(o) /\ NoGen /\ NoNet /\ NoLib
  \/ SendTopic(<<"1">>) /\ NoGen /\ NoNet /\ NoLib
  \/ \E ok \in BOOLEAN : OutlineResponse(ok, OutlineT) /\ NoGen /\ NoNet /\ NoLib
  \/ \E o \in PosOutcomes : TopicPosResponse(o) /\ NoGen /\ NoNet /\ NoLib
  \/ Add(<<"1">>, 1) /\ NoGen /\ NoNet /\ NoLib
  \/ \E i \in 1..MaxNodes : Edit(i, <<"1">>, 1) /\ NoGen /\ NoNet /\ NoLib
  \/ \E i \in 1..MaxNodes : Delete(i) /\ NoGen /\ NoNet /\ NoLib
  \/ GenerateClick /\ NoNet /\ NoLib
  \/ OpenHistory /\ NoGen /\ NoNet /\ NoLib
  \/ HistPosResponse("success") /\ NoGen /\ NoNet /\ NoLib
  \/ HistRecordsResponse("success") /\ NoGen /\ NoNet /\ NoLib
  \/ \E pos \in Positions : SelectRecord(pos) /\ NoGen /\ NoNet /\ NoLib
  \/ CloseHistory /\ NoGen /\ NoNet /\ NoLib
  \/ LoadClick /\ NoGen /\ NoNet /\ NoLib
  \/ \E o \in PosOutcomes : LoadRecordResponse(o) /\ NoGen /\ NoNet /\ NoLib
  \/ \E o \in PosOutcomes : LoadSetPosResponse(o) /\ NoGen /\ NoNet /\ NoLib
  \/ LoadCurPosResponse("success") /\ NoGen /\ NoNet /\ NoLib

SpecSave == InitSave /\ [][NextSave]_vars

\* ----------------------------------------------- the global position API
NextApi ==
  \/ NextPos
  \/ \E pos \in Positions : SetCurrentPosCall(pos) /\ NoGen /\ NoNet /\ NoLib
  \/ \E o \in Outcomes : SetCurrentPosResponse(o) /\ NoGen /\ NoNet /\ NoLib

SpecApi == InitPos /\ [][NextApi]_vars

\* ------------------------------------------------- streaming generation
InitGen == \E variant \in RetryVariants : InitWith(EmptySession, variant)

NextGen ==
  \/ SendTopic(<<"1">>) /\ NoGen /\ NoNet /\ NoLib
  \/ OutlineResponse(TRUE, OutlineT) /\ NoGen /\ NoNet /\ NoLib
  \/ TopicPosResponse("success") /\ NoGen /\ NoNet /\ NoLib
  \/ \E i \in 1..MaxNodes : Delete(i) /\ NoGen /\ NoNet /\ NoLib
  \/ GenerateClick /\ NoNet /\ NoLib
  \/ \E r \in 1..MaxRuns : GenSyncResponse(r) /\ NoNet /\ NoLib
  \/ \E r \in 1..MaxRuns, ok \in BOOLEAN : RunResponse(r, ok) /\ NoNet /\ NoLib
  \/ \E r \in 1..MaxRuns, line \in Lines : StreamLine(r, line) /\ NoNet /\ NoLib
  \/ \E r \in 1..MaxRuns : StreamEnd(r) /\ NoNet /\ NoLib
  \/ \E r \in 1..MaxRuns : StreamAbort(r) /\ NoNet /\ NoLib
  \/ SaveTimer /\ NoNet /\ NoLib
  \/ \E idx \in 0..MaxIndex : RetryClick(idx) /\ NoNet /\ NoLib
  \/ \E rt \in retries, res \in RetryResults : RetryResponse(rt, res) /\ NoNet /\ NoLib
  \/ ContinueTimer /\ NoNet /\ NoLib

SpecGen == InitGen /\ [][NextGen]_vars

\* ------------------------------------- the editor handlers on one outline
EditorOutlines ==
  { <<"#", " ", "1", NL, "#", "#", " ", "1", NL, "#", " ", "1">>,
    <<"#", "#", "#", "#", "#", "#", "#", " ", "1">> }

InitEditor == InitWith(EmptySession, "generate_article")

NextEditor ==
  \/ PosInitResponse("success") /\ NoGen /\ NoNet /\ NoLib
  \/ SendTopic(<<"1">>) /\ NoGen /\ NoNet /\ NoLib
  \/ \E data \in EditorOutlines : OutlineResponse(TRUE, data) /\ NoGen /\ NoNet /\ NoLib
  \/ TopicPosResponse("success") /\ NoGen /\ NoNet /\ NoLib
  \/ \E level \in LevelInputs : Add(<<"#">>, level) /\ NoGen /\ NoNet /\ NoLib
  \/ \E i \in 1..Len(nodes), level \in LevelInputs : Edit(i, <<"#">>, level) /\ NoGen /\ NoNet /\ NoLib
  \/ \E i \in 1..Len(nodes) : Delete(i) /\ NoGen /\ NoNet /\ NoLib
  \/ SortToggle /\ NoGen /\ NoNet /\ NoLib
  \/ \E i, j \in 1..Len(nodes) : Reorder(i, j) /\ NoGen /\ NoNet /\ NoLib

SpecEditor == InitEditor /\ [][NextEditor]_vars

\* ------------------------------------------- the read loop over one body
\* A response body is a sequence of bytes: three one-byte characters and the
\* two bytes C3 A9 of one two-byte character.
MaxBody == 4
LeadByte == "C3"
ContByte == "A9"
TwoByteChar == "e'"
Replacement == "U+FFFD"
StreamBytes == {"1", " ", NL, LeadByte, ContByte}
Bodies == UNION {[1..n -> StreamBytes] : n \in 0..MaxBody}

\* decoder.decode(value) without the stream option: an incomplete character
\* at the end of the chunk is replaced, nothing is carried over
RECURSIVE DecodeChunk(_, _, _)
DecodeChunk(bytes, carry, acc) ==
  IF bytes = <<>>
  THEN [text |-> IF carry = <<>> THEN acc ELSE Append(acc, Replacement),
        carry |-> <<>>]
  ELSE LET b == Head(bytes)
       IN IF carry = <<>>
          THEN IF b = LeadByte THEN DecodeChunk(Tail(bytes), <<b>>, acc)
               ELSE IF b = ContByte
                    THEN DecodeChunk(Tail(bytes), <<>>, Append(acc, Replacement))
                    ELSE DecodeChunk(Tail(bytes), <<>>, Append(acc, b))
          ELSE IF b = ContByte
               THEN DecodeChunk(Tail(bytes), <<>>, Append(acc, TwoByteChar))
               ELSE DecodeChunk(bytes, <<>>, Append(acc, Replacement))

\* decoder.decode(value, { stream: true }): the bytes of an incomplete
\* character at the end of the chunk are carried over to the next call
RECURSIVE DecodeStream(_, _, _)
DecodeStream(bytes, carry, acc) ==
  IF bytes = <<>> THEN [text |-> acc, carry |-> carry]
  ELSE LET b == Head(bytes)
       IN IF carry = <<>>
          THEN IF b = LeadByte THEN DecodeStream(Tail(bytes), <<b>>, acc)
               ELSE IF b = ContByte
                    THEN DecodeStream(Tail(bytes), <<>>, Append(acc, Replacement))
                    ELSE DecodeStream(Tail(bytes), <<>>, Append(acc, b))
          ELSE IF b = ContByte
               THEN DecodeStream(Tail(bytes), <<>>, Append(acc, TwoByteChar))
               ELSE DecodeStream(bytes, <<>>, Append(acc, Replacement))

\* for (const line of lines) if (line.trim()) handleStreamLine(line.trim())
RECURSIVE HandledOf(_)
HandledOf(ls) ==
  IF ls = <<>> THEN <<>>
  ELSE (IF Trim(Head(ls)) # <<>> THEN <<Trim(Head(ls))>> ELSE <<>>)
       \o HandledOf(Tail(ls))

NewReader(body) ==
  [body |-> body, rest |-> body, carry |-> <<>>, buffer |-> <<>>,
   handled |-> <<>>, reads |-> 0, done |-> FALSE]

pageVars == <<editorVars, posVars, histVars, gsp, srv, topic, container,
              genVars, out, notice, inflight, library>>

\* one turn of the loop: reader.read() delivers the next n bytes
ReadChunk(n) ==
  /\ ~reader.done
  /\ n \in 1..Len(reader.rest)
  /\ LET d == DecodeStream(SubSeq(reader.rest, 1, n), reader.carry, <<>>)
         ls == SplitLines(reader.buffer \o d.text)
     IN reader' = [reader EXCEPT
                     !.rest = SubSeq(reader.rest, n + 1, Len(reader.rest)),
                     !.carry = d.carry,
                     !.buffer = ls[Len(ls)],
                     !.handled = @ \o HandledOf(SubSeq(ls, 1, Len(ls) - 1)),
                     !.reads = @ + 1]
  /\ UNCHANGED pageVars

\* reader.read() reports done: the loop ends and the buffer is handled
ReadDone ==
  /\ ~reader.done
  /\ reader.rest = <<>>
  /\ reader' = [reader EXCEPT
                  !.handled = @ \o HandledOf(<<reader.buffer>>),
                  !.done = TRUE]
  /\ UNCHANGED pageVars

InitReader ==
  /\ InitPage(EmptySession, "generate_article")
  /\ inflight = <<>>
  /\ \E body \in Bodies : reader = NewReader(body)

NextReader ==
  \/ \E n \in 1..MaxBody : ReadChunk(n)
  \/ ReadDone

SpecReader == InitReader /\ [][NextReader]_vars

\* --------------------------------------------- failures and what follows
FailedLines ==
  {Line("CHAPTER_DATA", 0, TRUE), Line("CHAPTER_ERROR", 0, TRUE),
   Line("CHAPTER_ERROR", 0, FALSE)}

\* what is typed into the dialog: nothing, a blank, a character
FailInputs == {<<>>, <<" ">>, <<"#">>}

NextFail ==
  \/ PosInitResponse("success") /\ NoGen /\ NoNet /\ NoLib
  \/ SendTopic(<<"1">>) /\ NoGen /\ NoNet /\ NoLib
  \/ \E ok \in BOOLEAN : OutlineResponse(ok, OutlineT) /\ NoGen /\ NoNet /\ NoLib
  \/ OutlineHttpError /\ NoGen /\ NoNet /\ NoLib
  \/ \E raw \in FailInputs : Add(raw, 1) /\ NoGen /\ NoNet /\ NoLib
  \/ \E i \in 1..Len(nodes), raw \in FailInputs : Edit(i, raw, 1) /\ NoGen /\ NoNet /\ NoLib
  \/ \E i \in 1..Len(nodes) : Delete(i) /\ NoGen /\ NoNet /\ NoLib
  \/ \E ok \in BOOLEAN : FallbackResponse(ok, OutlineT) /\ NoGen /\ NoNet /\ NoLib
  \/ TopicPosResponse("success") /\ NoGen /\ NoNet /\ NoLib
  \/ GenerateClick /\ NoNet /\ NoLib
  \/ \E r \in 1..MaxRuns : GenSyncResponse(r) /\ NoNet /\ NoLib
  \/ \E r \in 1..MaxRuns, ok \in BOOLEAN : RunResponse(r, ok) /\ NoNet /\ NoLib
  \/ \E r \in 1..MaxRuns, line \in FailedLines : StreamLine(r, line) /\ NoNet /\ NoLib
  \/ \E r \in 1..MaxRuns : StreamEnd(r) /\ NoNet /\ NoLib
  \/ \E r \in 1..MaxRuns : StreamAbort(r) /\ NoNet /\ NoLib
  \/ \E idx \in 0..MaxIndex : RetryClick(idx) /\ NoNet /\ NoLib
  \/ \E rt \in retries, res \in RetryResults : RetryResponse(rt, res) /\ NoNet /\ NoLib
  \/ ContinueTimer /\ NoNet /\ NoLib

SpecFail == InitGen /\ [][NextFail]_vars

\* ------------------------------------------- outline saves on their way
MaxInflight == 2

\* the outline saves among the requests a handler issued are on their way
Post ==
  /\ inflight' = inflight \o SelectSeq(out', LAMBDA q : q.type = "outline_save")
  /\ Len(inflight') <= MaxInflight
  /\ UNCHANGED <<reader, library>>

\* the backend's upsert of an outline at a position (from the spec)
SrvSaveOutline(s, q) ==
  IF SrvHasRecord(s, q.pos) THEN [s EXCEPT !.records[q.pos + 1].outline = q.content]
  ELSE s

\* a response handler that sends the outline again when it differs
SaveSettledResends(q) ==
  IF q.content # hiddenInput THEN <<OutlineSave(hiddenInput, q.pos)>> ELSE <<>>

\* send_topic.js saveOutlineToHistory after the await: the outcome is logged
SaveSettled(q) == <<>>

\* the backend applies the in-flight save k, whichever it is, and the fetch
\* of saveOutlineToHistory settles
ApplySave(k) ==
  /\ k \in 1..Len(inflight)
  /\ srv' = SrvSaveOutline(srv, inflight[k])
  /\ out' = SaveSettled(inflight[k])
  /\ inflight' = RemoveAt(inflight, k) \o out'
  /\ UNCHANGED <<editorVars, posVars, histVars, gsp, topic, container, genVars,
                 reader, library>>
  /\ notice' = Quiet

NextRace ==
  \/ PosInitResponse("success") /\ NoGen /\ Post
  \/ SendTopic(<<"1">>) /\ NoGen /\ Post
  \/ OutlineResponse(TRUE, OutlineT) /\ NoGen /\ Post
  \/ TopicPosResponse("success") /\ NoGen /\ Post
  \/ \E i \in 1..MaxNodes : Edit(i, <<"#">>, 1) /\ NoGen /\ Post
  \/ \E i \in 1..MaxNodes : Delete(i) /\ NoGen /\ Post
  \/ \E k \in 1..MaxInflight : ApplySave(k)

SpecRace == InitOutline /\ [][NextRace]_vars

\* ------------------------------------- one stream and the lines it carried
\* reader.handled records the lines passed to handleStreamLine
MaxLines == 3
BadChapterData == Line("CHAPTER_DATA", 0, FALSE)
StreamedLines ==
  {Line("CHAPTER_DATA", 0, TRUE), Line("CHAPTER_DATA", 1, TRUE), BadChapterData,
   Line("ARTICLE_COMPLETE", 0, TRUE)}

HandleLine(r, line) ==
  /\ Len(reader.handled) < MaxLines
  /\ StreamLine(r, line)
  /\ reader' = [reader EXCEPT !.handled = Append(@, line)]
  /\ UNCHANGED <<inflight, library>>

NextLines ==
  \/ PosInitResponse("success") /\ NoGen /\ NoNet /\ NoLib
  \/ SendTopic(<<"1">>) /\ NoGen /\ NoNet /\ NoLib
  \/ OutlineResponse(TRUE, OutlineT) /\ NoGen /\ NoNet /\ NoLib
  \/ TopicPosResponse("success") /\ NoGen /\ NoNet /\ NoLib
  \/ GenerateClickWithin(MaxRuns) /\ NoNet /\ NoLib
  \/ \E r \in 1..MaxRuns : GenSyncResponse(r) /\ NoNet /\ NoLib
  \/ \E r \in 1..MaxRuns : RunResponse(r, TRUE) /\ NoNet /\ NoLib
  \/ \E r \in 1..MaxRuns, line \in StreamedLines : HandleLine(r, line)
  \/ \E r \in 1..MaxRuns : StreamEnd(r) /\ NoNet /\ NoLib

SpecLines == InitGen /\ [][NextLines]_vars

\* ================================================================ claims

\* C1: a setCurrentPos call that is confirmed leaves getCurrentPos() equal to
\* the position it posted, and a call that is not confirmed leaves
\* getCurrentPos() as it was; stated for the global function and for the
\* history manager's method at the step in which the answer is handled.
SetCurrentPosContract ==
  [][ /\ (gsp.pc = "post" /\ gsp'.pc = "idle") =>
           IF gsp'.result = "true" THEN getCurrentPos' = gsp.pos
           ELSE getCurrentPos' = getCurrentPos
      /\ (load.pc = "setpos" /\ load'.pc # "setpos") =>
           IF load'.pc = "curpos" THEN getCurrentPos' = load.posted
           ELSE getCurrentPos' = getCurrentPos ]_vars

\* C2: every outline save issued by an edit or by the Generate sync carries
\* the position of the record whose outline the editor shows.
SavesTargetShownRecord ==
  \A k \in 1..Len(out) :
    out[k].type = "outline_save" => out[k].pos = out[k].shown

\* C3: parsing the serialized outline gives back the editor's (level, text)
\* pairs in the same order, after any sequence of Add, Edit, Delete, Reorder.
RoundTrip == Pairs(ParseOutline(SerializeOutline(nodes))) = Pairs(nodes)

ChapterBodies(c) == [k \in 1..Len(ChapterItems(c)) |-> ChapterItems(c)[k].body]

\* the step in which loadSelectedOutline ends with its success notification
LoadCompletes == load.pc # "idle" /\ load'.pc = "idle" /\ load'.status = "loaded"

\* C8: when a load of position p ends successfully the editor shows record
\* p's outline, the article display shows record p's article or nothing, and
\* getCurrentPos() = p.
LoadShowsRecord ==
  [][ LoadCompletes =>
        LET rec == srv.records[load.pos + 1]
        IN /\ Pairs(nodes') = Pairs(ParseOutline(rec.outline))
           /\ IF rec.article = <<>> THEN ~container'.present
              ELSE container'.present /\ ChapterBodies(container') = rec.article
           /\ getCurrentPos' = load.pos ]_vars

\* C9: when a load of a record without an article ends successfully, no
\* article container is left in the page.
NullArticleLeavesNoContainer ==
  [][ (LoadCompletes /\ srv.records[load.pos + 1].article = <<>>) =>
        ~container'.present ]_vars

\* C9 witness: a record without an article was loaded over a displayed
\* article and the container is gone
NullArticleLoadedOverArticle ==
  /\ load.pc = "idle" /\ load.status = "loaded" /\ load.had
  /\ srv.records[load.pos + 1].article = <<>>
  /\ ~container.present

\* C4: once a stream has carried a CHAPTER_ERROR line, none of its later
\* lines is processed: it renders no further chapter and its
\* ARTICLE_COMPLETE has no effect, whatever the payload of the error line.
NothingAfterAnyChapterError ==
  [][ \A r \in 1..Len(runs) :
        runs[r].errSeen => /\ runs'[r].rendered = runs[r].rendered
                           /\ runs'[r].complete = runs[r].complete ]_vars

\* C4 as amended: once a CHAPTER_ERROR line has been displayed as an error
\* block, the stream's read loop is over and none of its later lines is
\* processed.
NothingAfterDisplayedChapterError ==
  [][ \A r \in 1..Len(runs) :
        runs[r].fatal => /\ runs'[r].pc = "caught"
                         /\ runs'[r].rendered = runs[r].rendered
                         /\ runs'[r].complete = runs[r].complete ]_vars

\* C4 witness: a stream rendered a chapter and was then stopped by a
\* displayed CHAPTER_ERROR
StreamStoppedByChapterError ==
  \E r \in 1..Len(runs) :
    runs[r].fatal /\ runs[r].rendered # <<>> /\ runs[r].pc = "caught"

IsAscending(sq) == \A k \in 1..Len(sq) - 1 : sq[k] < sq[k + 1]

\* C5: a CHAPTER_DATA line whose index differs from those of the chapters in
\* the container, which are in strictly ascending order, leaves the chapters
\* in strictly ascending order with the new one among them.
ChaptersStayAscending ==
  [][ \A r \in 1..Len(runs) :
        (/\ Len(runs'[r].rendered) = Len(runs[r].rendered) + 1
         /\ IsAscending(ChapterIndices(container))
         /\ runs'[r].rendered[Len(runs'[r].rendered)] \notin SeqRange(ChapterIndices(container)))
        => /\ IsAscending(ChapterIndices(container'))
           /\ SeqRange(ChapterIndices(container')) =
                SeqRange(ChapterIndices(container))
                \cup {runs'[r].rendered[Len(runs'[r].rendered)]} ]_vars

\* C5 witness: chapters arrived in the order 2, 0, 1 and stand in the order
\* 0, 1, 2
OutOfOrderArrivalSorted ==
  \E r \in 1..Len(runs) :
    runs[r].rendered = <<2, 0, 1>> /\ ChapterIndices(container) = <<0, 1, 2>>

\* the state of the spec's per-run state machine a run is in
Phase(run) ==
  IF run.pc = "caught" THEN "ERRORED"
  ELSE IF run.complete THEN "COMPLETE"
  ELSE IF run.pc = "sync" THEN "IDLE"
  ELSE IF run.pc = "fetch" THEN "REQUESTED"
  ELSE "STREAMING"

\* C6: every run whose response stream has terminated is COMPLETE or ERRORED.
TerminatedRunsResolved ==
  \A r \in 1..Len(runs) :
    runs[r].pc \in {"returned", "caught"} => Phase(runs[r]) \in {"COMPLETE", "ERRORED"}

\* C7: handling ARTICLE_COMPLETE removes the progress element, and when the
\* auto-save timer of a run that rendered a chapter fires, exactly one
\* article save is posted, for the current position.
CompleteIsFollowedBySave ==
  [][ /\ \A r \in 1..Len(runs) :
           (~runs[r].complete /\ runs'[r].complete) => ~container'.progress
      /\ (saveTimers # <<>> /\ saveTimers' = Tail(saveTimers)
          /\ runs[Head(saveTimers)].rendered # <<>>)
         => /\ Len(out') = 1
            /\ out'[1].type = "article_save"
            /\ out'[1].pos = getCurrentPos ]_vars

\* chapters and error blocks stand in the order of their chapter indices
InIndexOrder(items) == \A k \in 1..Len(items) - 1 : items[k].index <= items[k + 1].index

\* the step in which the retry rt is answered with a chapter that is rendered
RetrySucceeds(rt) ==
  /\ rt \in retries /\ retries' = retries \ {rt}
  /\ Len(ChapterItems(container')) = Len(ChapterItems(container)) + 1

\* what a successful retry of chapter rt.index leaves: the error block it was
\* started from (the first one with the chapter's id) is gone, the chapter is
\* at its index position, and there is either a continuation timer for the
\* next chapter or the completion display
RetryOutcome(rt) ==
  /\ FindErrorBy(container'.items, rt.by, 1) = 0
  /\ (/\ IsAscending(ChapterIndices(container))
      /\ InIndexOrder(container.items)
      /\ rt.index \notin SeqRange(ChapterIndices(container)))
     => /\ IsAscending(ChapterIndices(container'))
        /\ rt.index \in SeqRange(ChapterIndices(container'))
  /\ IF rt.index + 1 < HeadingCount(RetryOutline(rt))
     THEN /\ contTimers' = Append(contTimers, rt.index + 1)
          /\ container'.complete = container.complete
     ELSE contTimers' = contTimers /\ container'.complete

ContinueTimerFires == contTimers # <<>> /\ contTimers' = Tail(contTimers)

ContinueIssued ==
  /\ Len(out') = 1
  /\ out'[1].type = "continue_generation"
  /\ out'[1].start = Head(contTimers)
  /\ runs' = Append(runs, [NewRun("continue", "fetch", Head(contTimers))
                             EXCEPT !.pos = getCurrentPos])

HandlerStep ==
  /\ editorMode \in {"live", "history"} /\ editorMode' = editorMode
  /\ topic'.pc = topic.pc /\ load'.pc = load.pc

AddStep == HandlerStep /\ Len(nodes') = Len(nodes) + 1
DeleteStep == HandlerStep /\ Len(nodes') = Len(nodes) - 1
EditStep ==
  /\ HandlerStep /\ Len(nodes') = Len(nodes)
  /\ Cardinality({i \in 1..Len(nodes) : Pairs(nodes')[i] # Pairs(nodes)[i]}) = 1
SortOffStep == HandlerStep /\ sortingEnabled /\ ~sortingEnabled'

\* C11: every Add, Edit or Delete performed while the skip-save flag is clear
\* issues an outline save whose content is the serialization of the
\* resulting node list, the empty list included.
EveryEditIsSaved ==
  [][ ((AddStep \/ EditStep \/ DeleteStep) /\ ~skipSave)
      => /\ Len(out') = 1
         /\ out'[1].type = "outline_save"
         /\ out'[1].content \in {SerializeOutline(nodes'), SerializeHistory(nodes')} ]_vars

\* the number of nodes of level l up to node k since the last node of a
\* level shallower than l
RefCount(ns, k, l) ==
  Cardinality({j \in 1..k : ns[j].level = l /\ \A i \in j + 1..k : ns[i].level >= l})

\* the hierarchical label of node k: its counts at the levels l..its own,
\* the levels without a counted node left out
RECURSIVE RefLabel(_, _, _)
RefLabel(ns, k, l) ==
  IF l > ns[k].level THEN <<>>
  ELSE (IF RefCount(ns, k, l) > 0 THEN <<RefCount(ns, k, l)>> ELSE <<>>)
       \o RefLabel(ns, k, l + 1)

NumberingStep == AddStep \/ EditStep \/ DeleteStep \/ SortOffStep

RefHasChildren(ns, k) ==
  \E j \in k + 1..Len(ns) :
    /\ ns[j].level > ns[k].level
    /\ \A i \in k + 1..j - 1 : ns[i].level > ns[k].level

\* C13: after every Add, Edit, Delete and sort-off each node's has-children
\* flag says whether the node has children, and a node just added is flagged
\* childless.
HasChildrenFlagsAreRight ==
  [][ /\ NumberingStep
         => \A k \in 1..Len(nodes') : nodes'[k].hasChildren = RefHasChildren(nodes', k)
      /\ AddStep => ~nodes'[Len(nodes')].hasChildren ]_vars

\* C13 witness: a first-level node whose next node was edited to the second
\* level is flagged as having children
EditedNodeMakesParent ==
  /\ Len(nodes) >= 2
  /\ nodes[1].level = 1 /\ nodes[1].hasChildren
  /\ nodes[2].text = <<"#">> /\ nodes[2].level = 2

\* the part of the body that reader.read() has delivered so far
Delivered == SubSeq(reader.body, 1, Len(reader.body) - Len(reader.rest))
TextOf(bytes) == DecodeStream(bytes, <<>>, <<>>).text
AllButLast(sq) == SubSeq(sq, 1, Len(sq) - 1)

\* C14: for every way of splitting a response body into chunks the lines
\* passed to the line handler are the same: while the stream is open, the
\* non-blank lines of the delivered text that end in a newline, once each and
\* in order, and nothing of the line still open; when the stream has ended,
\* these and the non-blank unterminated last line.
LinesIndependentOfChunks ==
  reader.handled =
    IF reader.done
    THEN HandledOf(SplitLines(TextOf(reader.body)))
    ELSE HandledOf(AllButLast(SplitLines(TextOf(Delivered))))

\* a body of two lines read one byte at a time, the two-byte character of
\* its unterminated last line split between two chunks
SplitCharacterRead ==
  /\ reader.done
  /\ reader.body = <<"1", NL, LeadByte, ContByte>>
  /\ reader.reads = 4
  /\ reader.handled = << <<"1">>, <<TwoByteChar>> >>

\* C15: a CHAPTER_DATA line whose payload is not valid JSON leaves the chapter
\* data store, the rendered chapters and the completed count as they were,
\* and the stream goes on being read.
BadChapterDataIsSkipped ==
  [][\A r \in 1..MaxRuns :
       StreamLine(r, BadChapterData) =>
         /\ chapterDataStore' = chapterDataStore
         /\ container' = container
         /\ winCompleted' = winCompleted
         /\ runs'[r].pc = "reading"]_vars

\* a chapter was rendered from the line that followed an unparsable one
ChapterAfterBadLine ==
  /\ Len(reader.handled) = 2
  /\ reader.handled[1] = BadChapterData
  /\ reader.handled[2] = Line("CHAPTER_DATA", 0, TRUE)
  /\ ChapterIndices(container) = <<0>>
  /\ chapterDataStore = {0}
  /\ winCompleted = 1

\* C16: the article container never shows chapters of an earlier run next to
\* those of a newer one: all the chapters in it were rendered from the stream
\* of one and the same generation run, also when an earlier run is still
\* streaming at the moment GENERATE is clicked again.
OnlyOneRunShown ==
  container.present /\ ChapterItems(container) # <<>> =>
    \E r \in 1..Len(runs) :
      /\ Len(ChapterItems(container)) <= Len(runs[r].rendered)
      /\ \A k \in 1..Len(ChapterItems(container)) :
           ChapterItems(container)[k].index \in SeqRange(runs[r].rendered)

\* the outline the backend holds for the record the live editor shows
ServerOutline ==
  IF SrvHasRecord(srv, shownPos) THEN srv.records[shownPos + 1].outline ELSE <<>>
SaveApplied == \E k \in 1..MaxInflight : ApplySave(k)
Diverged ==
  /\ editorMode = "live" /\ topic.pc = "idle"
  /\ inflight = <<>> /\ hiddenInput # <<>>
  /\ ServerOutline # hiddenInput
EditorKept == nodes' = nodes /\ hiddenInput' = hiddenInput
UserActs ==
  \/ SendTopic(<<"1">>)
  \/ \E i \in 1..MaxNodes : Edit(i, <<"#">>, 1) \/ Delete(i)

\* C17: outline saves are applied in whatever order they reach the backend,
\* and nothing in the client repairs the result: the settling of a save
\* issues no request and leaves the editor as it is, and once no save and no
\* topic is on its way and the backend holds another outline than the editor,
\* every step that is not an operation of the user leaves the editor and the
\* backend's outline alone and sends no save.
NothingCorrectsStaleSave ==
  [][/\ SaveApplied => out' = <<>> /\ EditorKept
     /\ Diverged /\ ~UserActs =>
          EditorKept /\ ServerOutline' = ServerOutline /\ inflight' = <<>>]_vars

\* two edits, their saves applied in the opposite order: the backend holds
\* the outline of the first edit, the editor shows that of the second
OlderOutlineOnServer ==
  /\ inflight = <<>>
  /\ hiddenInput = <<"#", " ", "#", NL, "#", " ", "#">>
  /\ ServerOutline = <<"#", " ", "#", NL, "#", " ", "1">>

\* the step handles a failure: a CHAPTER_ERROR line, a non-2xx answer or a
\* rejected fetch of a generation, retry, outline or fallback request
FailureHandled ==
  \/ \E r \in 1..MaxRuns : RunResponse(r, FALSE) \/ StreamAbort(r)
  \/ \E r \in 1..MaxRuns, i \in 0..MaxIndex, good \in BOOLEAN :
        StreamLine(r, Line("CHAPTER_ERROR", i, good))
  \/ \E rt \in retries, res \in RetryResults \ {"content"} : RetryResponse(rt, res)
  \/ OutlineResponse(FALSE, OutlineT)
  \/ OutlineHttpError
  \/ FallbackResponse(FALSE, OutlineT)
GenerationKinds ==
  {"generate_article", "generate_single_chapter", "continue_generation",
   "generate_outline", "demo_outline"}
GenerationRequests(rs) == SelectSeq(rs, LAMBDA q : q.type \in GenerationKinds)

\* C18 as stated: no step that handles a failure issues a generation request
\* or an outline-generation request.
NoRequestOnFailure ==
  [][FailureHandled => GenerationRequests(out') = <<>>]_vars

\* C18: no step that handles a failure issues a generation request or an
\* outline-generation request, with one exception: a non-2xx answer to the
\* outline request makes the client post the fallback request to
\* /api/generate/demooutline, once.
NoRequestOnFailureButFallback ==
  [][FailureHandled =>
       IF OutlineHttpError THEN out' = <<[type |-> "demo_outline"]>>
       ELSE GenerationRequests(out') = <<>>]_vars

\* a stream stopped by a chapter error: the error block is shown with its
\* retry button, and nothing is requested or scheduled
StoppedAwaitingRetry ==
  /\ Len(runs) = 1 /\ runs[1].fatal
  /\ container.present /\ FindError(container.items, 0, 1) > 0
  /\ out = <<>> /\ retries = {} /\ contTimers = <<>>

\* a displayOutlineInSidebar call of send_topic.js returns
DisplayReturned == \E o \in Outcomes : TopicPosResponse(o)

\* C19: the skip-save flag is one-shot: it is false whenever a
\* displayOutlineInSidebar call has returned, whatever outline text the
\* server returned, and a save it suppresses belongs to that call.
SkipSaveIsOneShot ==
  [][/\ DisplayReturned => ~skipSave'
     /\ ~DisplayReturned => ~skipSave]_vars

\* the contents of the outline saves among the requests rs
SavedOutlines(rs) ==
  LET saves == SelectSeq(rs, LAMBDA q : q.type = "outline_save")
  IN [k \in 1..Len(saves) |-> saves[k].content]

\* sort mode is on and the blocks are in an order that was not saved yet
PendingReorder ==
  /\ editorMode = "live" /\ sortingEnabled
  /\ SerializeOutline(nodes) # hiddenInput

ReorderStep == \E i, j \in 1..Len(nodes) : Reorder(i, j)

\* C20 as stated: while sort mode is on no outline save carries a reordered
\* node list, whatever Add, Edit or Delete happens; the step that turns sort
\* mode off issues one save with the new order.
ReorderSavedOnlyAtSortOff ==
  [][/\ (PendingReorder /\ sortingEnabled') => SavedOutlines(out') = <<>>
     /\ (SortOffStep /\ editorMode = "live")
          => SavedOutlines(out') = <<SerializeOutline(nodes')>>]_vars

\* C20 as amended: a drag-and-drop reorder sends nothing and leaves the
\* hidden input alone; every Add, Edit, Delete and sort-off of the live
\* editor, in sort mode or not, writes the blocks in their current order to
\* the hidden input and saves that text, unless it is empty; sort-off also
\* recomputes the numbering (of levels 1 to 6).
ReorderSavedByNextUpdate ==
  [][/\ ReorderStep => out' = <<>> /\ hiddenInput' = hiddenInput
     /\ (NumberingStep /\ editorMode = "live")
          => /\ hiddenInput' = SerializeOutline(nodes')
             /\ SavedOutlines(out') =
                  IF Trim(hiddenInput') = <<>> THEN <<>> ELSE <<hiddenInput'>>
     /\ (SortOffStep /\ \A k \in 1..Len(nodes) : nodes[k].level <= LevelCounters)
          => /\ Pairs(nodes') = Pairs(nodes)
             /\ \A k \in 1..Len(nodes') :
                  nodes'[k].number = RefLabel(nodes', k, 1)]_vars

\* the outline H1, H2, H1 after its last block was dragged to the second
\* place and sort mode was turned off: renumbered 1, 2, 2.1 and saved
ReorderSavedAtSortOff ==
  /\ ~sortingEnabled /\ editorMode = "live"
  /\ Pairs(nodes) = <<<<1, <<"1">>>>, <<1, <<"1">>>>, <<2, <<"1">>>>>>
  /\ nodes[2].number = <<2>> /\ nodes[3].number = <<2, 1>>
  /\ SavedOutlines(out) = <<hiddenInput>>
  /\ hiddenInput = SerializeOutline(nodes)

\* the positions carried by the requests rs
CarriedPos(rs) == {rs[k].pos : k \in {i \in 1..Len(rs) : "pos" \in DOMAIN rs[i]}}

\* no answer of /api/session/current_pos has been stored yet: the positions
\* of the server are not negative, so window.currentPos still holds the value
\* the script gave it
PosNotInitialized == windowCurrentPos = Uninitialized

\* C21: before the position has been initialized from the server
\* getCurrentPos() returns 0 and every request sent carries pos = 0.
PosIsZeroBeforeInit ==
  PosNotInitialized => getCurrentPos = 0 /\ CarriedPos(out) \subseteq {0}

ArticleSaves(rs) == SelectSeq(rs, LAMBDA q : q.type = "article_save")

\* the chapter indices of the container in ascending order, each as often
\* as it is rendered
RECURSIVE Ascending(_, _)
Ascending(c, i) ==
  IF i > MaxIndex + 1 THEN <<>>
  ELSE SelectSeq(ChapterIndices(c), LAMBDA x : x = i) \o Ascending(c, i + 1)

BlankConfirmed ==
  \E raw \in {<<>>, <<" ">>} :
    \/ Add(raw, 1)
    \/ \E i \in 1..Len(nodes) : Edit(i, raw, 1)

\* Generate is clicked while the sidebar has no outline block
GenerateWithoutOutline == GenerateClick /\ nodes = <<>>

\* C23: a validation failure changes no state: a dialog confirmed with empty
\* or blank text leaves the node list, the stored outline and the record
\* alone and sends nothing; Generate without an outline sends nothing, starts
\* nothing and leaves the article display, the chapter counters and the
\* record alone. Both only show an error notification.
ValidationChangesNothing ==
  [][/\ BlankConfirmed
          => /\ UNCHANGED <<nodes, hiddenInput, srv>>
             /\ out' = <<>> /\ notice'.error
     /\ GenerateWithoutOutline
          => /\ UNCHANGED <<container, winTotal, winCompleted, srv, runs>>
             /\ out' = <<>> /\ notice'.error]_vars

\* the dialog refused its input: an error is shown over an outline of one
\* block that is stored as it is displayed, and nothing was sent
BlankRefused ==
  /\ notice.error /\ ~notice.cleanup /\ out = <<>>
  /\ runs = <<>> /\ Len(nodes) = 1
  /\ hiddenInput = SerializeOutline(nodes)

ChapterErrorLine(r, good) ==
  \E i \in 0..MaxIndex : StreamLine(r, Line("CHAPTER_ERROR", i, good))

\* the error block of the retry rt, if it is still displayed, has its retry
\* button enabled and its retry status hidden
RetryButtonFree(c, rt) ==
  FindErrorBy(c.items, rt.by, 1) > 0 => ~c.items[FindErrorBy(c.items, rt.by, 1)].busy

RetryFailed(rt) == \E res \in RetryResults \ {"content"} : RetryResponse(rt, res)

EditTargetPos == IF editorMode = "history" THEN HistoryTargetPos ELSE getCurrentPos

\* C25: selecting a record in the history dialog and closing the dialog
\* without loading does not change the position that later outline-edit
\* saves are written to. No edit is possible while the dialog is open, so
\* this is: neither the selection nor the closing changes that position.
SelectionKeepsEditTarget ==
  [][((\E pos \in Positions : SelectRecord(pos)) \/ CloseHistory)
       => EditTargetPos' = EditTargetPos]_vars

AskedChaptersOnly ==
  \A r \in 1..Len(runs) : \A k \in 1..Len(runs[r].rendered) :
    /\ runs[r].rendered[k] < winTotal
    /\ runs[r].kind = "continue" => runs[r].rendered[k] >= runs[r].start

\* C27: the completed-chapter count never exceeds the total-chapter count,
\* whatever Generate clicks, stream lines, retries and continuations came
\* before (the streams delivering only chapters they were asked for).
ProgressWithinTotal ==
  (winCompleted # Null /\ winTotal # Null /\ AskedChaptersOnly)
    => winCompleted <= winTotal

\* no two chapter nodes of the container carry the same chapter index
OneNodePerIndex(c) ==
  \A i, j \in 1..Len(ChapterIndices(c)) :
    i # j => ChapterIndices(c)[i] # ChapterIndices(c)[j]

\* C28: the article container holds at most one chapter node per chapter
\* index: a stream line handled while that is so leaves it so, also the
\* line of a continuation that delivers an index already rendered (the
\* streams delivering only chapters they were asked for).
OneNodePerChapter ==
  [][(/\ OneNodePerIndex(container)
      /\ AskedChaptersOnly'
      /\ \E r \in 1..Len(runs), line \in Lines : StreamLine(r, line))
       => OneNodePerIndex(container')]_vars

\* a run reaches completion in this step: an ARTICLE_COMPLETE line is
\* handled, or the retry of the last chapter of the outline succeeds
CompletedByLine ==
  \E r \in 1..Len(runs) : StreamLine(r, Line("ARTICLE_COMPLETE", 0, TRUE))
CompletedByRetry ==
  \E rt \in retries :
    /\ RetryResponse(rt, "content")
    /\ container.present
    /\ ~(rt.index + 1 < HeadingCount(RetryOutline(rt)))

\* C29: however a run reaches completion, by ARTICLE_COMPLETE or by the
\* successful retry of the last chapter, the progress element is gone
\* afterwards and the automatic save of the article is scheduled.
CompletionFinalizesAlike ==
  [][(CompletedByLine \/ CompletedByRetry)
       => /\ ~container'.progress
          /\ Len(saveTimers') = Len(saveTimers) + 1]_vars

\* ------------------------------------------ generation after generation
\* the lines of streams that deliver the chapters of the outline and end
RefLines ==
  {Line("CHAPTER_DATA", 0, TRUE), Line("CHAPTER_DATA", 1, TRUE),
   Line("ARTICLE_COMPLETE", 0, TRUE)}

\* the backend's stream (from the spec): a chapter delivered is one of the
\* headings of the outline
OfTheOutline(line) == line.tag = "CHAPTER_DATA" => line.index < winTotal

NextRefs ==
  \/ SendTopic(<<"1">>) /\ NoGen /\ NoNet /\ NoLib
  \/ OutlineResponse(TRUE, OutlineT) /\ NoGen /\ NoNet /\ NoLib
  \/ TopicPosResponse("success") /\ NoGen /\ NoNet /\ NoLib
  \/ \E i \in 1..MaxNodes : Delete(i) /\ NoGen /\ NoNet /\ NoLib
  \/ GenerateClickWithin(MaxRuns) /\ NoNet /\ NoLib
  \/ \E r \in 1..MaxRuns : GenSyncResponse(r) /\ NoNet /\ NoLib
  \/ \E r \in 1..MaxRuns : RunResponse(r, TRUE) /\ NoNet /\ NoLib
  \/ \E r \in 1..MaxRuns, line \in RefLines :
       StreamLine(r, line) /\ OfTheOutline(line) /\ NoNet /\ NoLib
  \/ \E r \in 1..MaxRuns : StreamEnd(r) /\ NoNet /\ NoLib
  \/ SaveTimer /\ NoNet /\ NoLib

SpecRefs == InitGen /\ [][NextRefs]_vars

\* the chapters are those of the outline that was generated last, all of them
WholeOutline(chapters) == SeqRange(chapters) = 0..(winTotal - 1)

\* C30: the references sent with an article save have entries only for
\* chapter indices of the article that is displayed and sent; entries stored
\* for an earlier generation run are not sent (the article sent being the
\* whole article of the outline generated last).
ReferencesOfSavedChapters ==
  \A k \in 1..Len(ArticleSaves(out)) :
    WholeOutline(ArticleSaves(out)[k].chapters)
      => ArticleSaves(out)[k].references \subseteq SeqRange(ArticleSaves(out)[k].chapters)

\* ------------------------------------- the outline at the time it is sent
\* an outline of two headings that differ
OutlineAB == <<"#", " ", "1", NL, "#", "#", " ", "1">>

SentLines == {Line("CHAPTER_DATA", 1, TRUE), Line("CHAPTER_ERROR", 0, TRUE)}

NextSent ==
  \/ SendTopic(<<"1">>) /\ NoGen /\ NoNet /\ NoLib
  \/ OutlineResponse(TRUE, OutlineAB) /\ NoGen /\ NoNet /\ NoLib
  \/ TopicPosResponse("success") /\ NoGen /\ NoNet /\ NoLib
  \/ SortToggle /\ NoGen /\ NoNet /\ NoLib
  \/ \E i, j \in 1..MaxNodes : Reorder(i, j) /\ NoGen /\ NoNet /\ NoLib
  \/ GenerateClick /\ NoNet /\ NoLib
  \/ \E r \in 1..MaxRuns : GenSyncResponse(r) /\ NoNet /\ NoLib
  \/ \E r \in 1..MaxRuns : RunResponse(r, TRUE) /\ NoNet /\ NoLib
  \/ \E r \in 1..MaxRuns, line \in SentLines : StreamLine(r, line) /\ NoNet /\ NoLib
  \/ \E idx \in 0..MaxIndex : RetryClick(idx) /\ NoNet /\ NoLib
  \/ \E rt \in retries : RetryResponse(rt, "content") /\ NoNet /\ NoLib
  \/ ContinueTimer /\ NoNet /\ NoLib

SpecSent == InitGen /\ [][NextSent]_vars

\* the requests that carry an outline to the backend for generation
OutlineSends(rs) ==
  SelectSeq(rs, LAMBDA q : q.type \in {"generate_article", "generate_single_chapter",
                                        "continue_generation"})

\* C31: whenever an outline is sent to the backend (Generate, retry,
\* continue), getCurrentOutlineText returns the serialization of the outline
\* the editor shows, in the form of either editing mode.
SentOutlineIsShownOutline ==
  [][OutlineSends(out') # <<>> /\ out' # out
       => getCurrentOutlineText' \in {SerializeOutline(nodes'), SerializeHistory(nodes')}]_vars

\* the record request of loadSelectedOutline fails in this step
LoadFails == load.pc = "record" /\ load'.status = "failed"

\* C32: when loadSelectedOutline fails, the outline editor and the current
\* position are left alone and an article that was displayed before the
\* load was attempted is still displayed.
FailedLoadChangesNothing ==
  [][LoadFails => /\ UNCHANGED <<editorVars, posVars>>
                  /\ load.had => container'.present]_vars

\* ------------------------------------ retries across generation runs
NextRetry ==
  \/ SendTopic(<<"1">>) /\ NoGen /\ NoNet /\ NoLib
  \/ OutlineResponse(TRUE, OutlineT) /\ NoGen /\ NoNet /\ NoLib
  \/ TopicPosResponse("success") /\ NoGen /\ NoNet /\ NoLib
  \/ GenerateClickWithin(MaxRuns) /\ NoNet /\ NoLib
  \/ \E r \in 1..MaxRuns : GenSyncResponse(r) /\ NoNet /\ NoLib
  \/ \E r \in 1..MaxRuns : RunResponse(r, TRUE) /\ NoNet /\ NoLib
  \/ \E r \in 1..MaxRuns, line \in FailedLines : StreamLine(r, line) /\ NoNet /\ NoLib
  \/ \E idx \in 0..MaxIndex : RetryClick(idx) /\ NoNet /\ NoLib
  \/ \E rt \in retries, res \in RetryResults : RetryResponse(rt, res) /\ NoNet /\ NoLib
  \/ ContinueTimer /\ NoNet /\ NoLib

SpecRetry == InitGen /\ [][NextRetry]_vars

\* the retry rt is answered with a failure in this step
RetryFails(rt) ==
  \E res \in RetryResults \ {"content"} : RetryResponse(rt, res)

\* a retry request is sent in this step
RetryStarts == retries' # retries /\ retries \subseteq retries'

\* C33: a retry for chapter i starts only while an error block for i with an
\* enabled button is displayed, no two retries for one chapter are in flight,
\* and a retry that fails leaves the error block in place with its button
\* enabled and the chapters, the chapter store and the counters as they were.
RetryGuardedAndFailureHarmless ==
  [][/\ RetryStarts =>
          \E rt \in retries' \ retries :
            /\ FindError(container.items, rt.index, 1) > 0
            /\ ~container.items[FindError(container.items, rt.index, 1)].busy
     /\ \A rt1, rt2 \in retries' : rt1.index = rt2.index => rt1 = rt2
     /\ \A rt \in retries :
          RetryFails(rt) =>
            /\ ChapterItems(container') = ChapterItems(container)
            /\ UNCHANGED <<chapterDataStore, winCompleted, winTotal, contTimers, runs>>
            /\ FindErrorBy(container.items, rt.by, 1) > 0 =>
                 /\ FindErrorBy(container'.items, rt.by, 1) > 0
                 /\ ~container'.items[FindErrorBy(container'.items, rt.by, 1)].busy]_vars

\* ------------------------------------ the numbering of the history manager
\* the counters after a heading of the level in history_outline.js: the loop
\* from index level resets only the indices greater than level, so the
\* counter right below the heading's own keeps its value
HistoryCountLine(counters, level) ==
  IF level > Len(counters)
  THEN counters \o Repeat(NaN, level - Len(counters))
  ELSE [i \in 1..Len(counters) |->
          IF i < level THEN counters[i]
          ELSE IF i > level + 1 THEN 0
          ELSE IF i = level + 1 THEN counters[i]
          ELSE IF counters[i] = NaN THEN NaN ELSE counters[i] + 1]

RECURSIVE HistoryNumberWalk(_, _)
HistoryNumberPush(rest, c, level) ==
  <<NumberStr(c, level, 1)>> \o HistoryNumberWalk(rest, c)
HistoryNumberLine(rest, counters, m) ==
  IF m = <<>> THEN HistoryNumberWalk(rest, counters)
  ELSE HistoryNumberPush(rest, HistoryCountLine(counters, m[1]), m[1])
HistoryNumberWalk(ls, counters) ==
  IF ls = <<>> THEN <<>>
  ELSE HistoryNumberLine(Tail(ls), counters, HeadingMatch(Head(ls)))

\* history_outline.js HistoryOutlineManager.generateHierarchicalNumbering
historyGenerateHierarchicalNumbering(ls) ==
  HistoryNumberWalk(ls, [i \in 1..LevelCounters |-> 0])

\* C34: for the heading lines of every outline the editor can hold with
\* levels 1 to 6, the numbering function of the history manager returns what
\* the numbering function of the outline editor returns.
FallbackNumberingAgrees ==
  (\A k \in 1..Len(nodes) : nodes[k].level <= LevelCounters)
    => historyGenerateHierarchicalNumbering(BlockLines(nodes))
         = generateHierarchicalNumbering(BlockLines(nodes))

\* C35: in every node list of the editor whose levels are among those the
\* dialog offers, the numbers of distinct nodes differ and the number of a
\* node has as many components as the node's level.
NumbersDistinctAndAsDeepAsLevel ==
  (\A k \in 1..Len(nodes) : nodes[k].level \in DialogLevels)
    => /\ \A i, j \in 1..Len(nodes) : i # j => nodes[i].number # nodes[j].number
       /\ \A k \in 1..Len(nodes) : Len(nodes[k].number) = nodes[k].level

\* ------------------------------------------- the private-library dialog
\* the files a user picks: three of supported types, one of them a legacy
\* .doc, and one of an unsupported type
LibraryFiles == {"a.pdf", "b.doc", "c.txt", "d.xlsx"}
isValidFile(file) == file # "c.txt"
IsLegacyDoc(file) == file = "b.doc"

\* the most files picked at once
MaxPick == 2
RECURSIVE PicksOfLength(_)
PicksOfLength(n) ==
  IF n = 0 THEN {<<>>}
  ELSE {Append(p, f) : p \in PicksOfLength(n - 1), f \in LibraryFiles}
Picks == UNION {PicksOfLength(n) : n \in 1..MaxPick}

\* the forEach of handleFiles over the picked files; continue is the answer
\* to the confirm shown for a legacy .doc file
RECURSIVE PushValid(_, _, _)
PushValid(files, picks, continue) ==
  IF picks = <<>> THEN files
  ELSE LET file == Head(picks)
           take == /\ isValidFile(file)
                   /\ file \notin SeqRange(files)
                   /\ IsLegacyDoc(file) => continue
       IN PushValid(IF take THEN Append(files, file) ELSE files, Tail(picks), continue)

\* updateConfirmButton
updateConfirmButton(files) == files = <<>>

libraryRest == <<editorVars, posVars, histVars, gsp, srv, topic, container,
                 genVars, reader, inflight>>

\* openFileDialog up to the await of loadSavedPrivateFiles
openFileDialog ==
  /\ ~library.open /\ library.pc = "idle"
  /\ library' = [library EXCEPT !.open = TRUE, !.files = <<>>, !.pc = "opening"]
  /\ out' = <<[type |-> "get_private_files"]>>
  /\ notice' = Quiet
  /\ UNCHANGED libraryRest

\* loadSavedPrivateFiles returns (it catches its own errors): the list and
\* the button are updated
SavedFilesLoaded ==
  /\ library.pc = "opening"
  /\ library' = [library EXCEPT !.pc = "idle",
                                 !.disabled = updateConfirmButton(library.files)]
  /\ out' = <<>>
  /\ notice' = Quiet
  /\ UNCHANGED libraryRest

\* files are chosen in the file input or dropped on the upload area
handleFiles(picks, continue) ==
  /\ library.open /\ library.pc # "sending"
  /\ LET files == PushValid(library.files, picks, continue)
     IN /\ library' = [library EXCEPT !.files = files,
                                       !.disabled = updateConfirmButton(files)]
        /\ notice' = Shown(\E k \in 1..Len(picks) :
                             \/ ~isValidFile(picks[k])
                             \/ picks[k] \in SeqRange(library.files), FALSE)
  /\ out' = <<>>
  /\ UNCHANGED libraryRest

\* the Remove button of a newly selected file
removeFile(index) ==
  /\ library.open /\ library.pc # "sending"
  /\ index \in 1..Len(library.files)
  /\ library' = [library EXCEPT
                   !.files = RemoveAt(library.files, index),
                   !.disabled = updateConfirmButton(RemoveAt(library.files, index))]
  /\ out' = <<>>
  /\ notice' = Quiet
  /\ UNCHANGED libraryRest

\* the Send Files button: processAndSendFiles up to its first await
processAndSendFiles ==
  /\ library.open /\ library.pc = "idle"
  /\ ~library.disabled
  /\ IF library.files = <<>>
     THEN /\ notice' = Shown(TRUE, FALSE)
          /\ UNCHANGED library
     ELSE /\ notice' = Quiet
          /\ library' = [library EXCEPT !.disabled = TRUE, !.pc = "sending"]
  /\ out' = <<>>
  /\ UNCHANGED libraryRest

\* processAndSendFiles after extraction and upload: on success the list is
\* emptied and the button updated; the finally block then enables the button
FilesSent(ok) ==
  /\ library.pc = "sending"
  /\ library' = [library EXCEPT !.pc = "idle",
                                 !.files = IF ok THEN <<>> ELSE library.files,
                                 !.disabled = FALSE]
  /\ out' = <<>>
  /\ notice' = Shown(~ok, FALSE)
  /\ UNCHANGED libraryRest

\* closeFileDialog: the lists are emptied, the button is not touched
closeFileDialog ==
  /\ library.open /\ library.pc = "idle"
  /\ library' = [library EXCEPT !.open = FALSE, !.files = <<>>]
  /\ out' = <<>>
  /\ notice' = Quiet
  /\ UNCHANGED libraryRest

NextLibrary ==
  \/ openFileDialog
  \/ SavedFilesLoaded
  \/ \E picks \in Picks, continue \in BOOLEAN : handleFiles(picks, continue)
  \/ \E index \in 1..Cardinality(LibraryFiles) : removeFile(index)
  \/ processAndSendFiles
  \/ \E ok \in BOOLEAN : FilesSent(ok)
  \/ closeFileDialog

SpecLibrary == InitGen /\ [][NextLibrary]_vars

\* C36: while the private-library dialog is open and neither loading nor
\* sending, the Send Files button is disabled exactly when no file is newly
\* selected.
SendButtonMatchesSelection ==
  (library.open /\ library.pc = "idle")
    => (library.disabled <=> library.files = <<>>)

====
